---- MODULE Spec2Model ----
(***************************************************************************)
(* Pylk: the selection / history / input-routing logic of PlkWidget        *)
(* (src/pylk/pylk/plk.py) and the project loading path of the Qt6 shell    *)
(* (src/pylk/controllers/project.py, src/pylk/models/pulsar.py,            *)
(* src/pylk/main_window.py).                                               *)
(*                                                                         *)
(* The pulsar object handed to PlkWidget.setPulsar is pylk.pulsar.Pulsar,  *)
(* which is not part of the source tree; its operations (Psr...) are       *)
(* modelled from the provider interface of the specification.              *)
(*                                                                         *)
(* Specifications: Spec (PlkWidget handlers), SpecMain (MainWindow and     *)
(* ProjectController), SpecKeys (canvas key dispatch), SpecView            *)
(* (PlkView.set_model), and three functions on their own inputs: SpecUnits *)
(* (determine_yaxis_units), SpecPayload (PlkView.on_residuals_changed),    *)
(* SpecResiduals (PulsarModel.compute_prefit_residuals); SpecLoad (the     *)
(* provider call of each way to load a pulsar); SpecSession (requests and  *)
(* the handlers that serve them, with fairness); SpecRender (the y-axis    *)
(* unit over a sequence of renders); SpecDrag (a click-and-drag after      *)
(* other handlers); SpecCtrl (ProjectController alone); SpecMouse (canvas  *)
(* press, motion and release).                                             *)
(***************************************************************************)
EXTENDS Integers, Sequences, FiniteSets, TLC

\* ------------------------------------------------------------------ bounds
\* number of TOAs in a loaded TIM file
NToas == 3
\* number of handler runs explored from the start
MaxSteps == 4
\* the longest list or array in a residuals payload
MaxLen == 2

\* ------------------------------------------------------- program constants
\* clickDist = 0.0005 = 1 / ClickDistInv
ClickDistInv == 2000
\* 0.2 ms and 0.2 s, the spreads determine_yaxis_units compares with, in
\* microseconds
MillisSpread == 200
SecondsSpread == 200000
\* fixed-point units per data unit: the default view (0, 1) of a cleared
\* matplotlib axes is (0, Unit)
Unit == 100
\* Qt mouse buttons as matplotlib reports them
LeftButton == 1
RightButton == 3

\* ----------------------------------------------------------------- helpers
Min(a, b) == IF a < b THEN a ELSE b
Max(a, b) == IF a > b THEN a ELSE b
Abs(a) == IF a < 0 THEN -a ELSE a
SetMin(S) == CHOOSE x \in S : \A y \in S : x <= y
SetMax(S) == CHOOSE x \in S : \A y \in S : x >= y

\* np.zeros(n, dtype=bool)
Zeros(n) == [k \in 1..n |-> FALSE]
\* any(mask)
AnyOf(m) == \E k \in 1..Len(m) : m[k]
\* all(mask)
AllOf(m) == \A k \in 1..Len(m) : m[k]
\* seq[mask] (numpy boolean-mask indexing)
RECURSIVE KeepSeq(_, _)
KeepSeq(s, m) ==
    IF Len(s) = 0 THEN <<>>
    ELSE (IF Head(m) THEN <<Head(s)>> ELSE <<>>) \o KeepSeq(Tail(s), Tail(m))
\* ~mask
NotMask(m) == [k \in 1..Len(m) |-> ~m[k]]
\* a | b
OrMask(a, b) == [k \in 1..Len(a) |-> a[k] \/ b[k]]
\* a & b
AndMask(a, b) == [k \in 1..Len(a) |-> a[k] /\ b[k]]
\* the table["index"] column
IndexCol(tab) == [k \in 1..Len(tab) |-> tab[k].index]
IndexSet(tab) == {tab[k].index : k \in 1..Len(tab)}

\* --------------------------------------------- the provider (pylk.pulsar)
\* TOA i of a TIM file: plotted position (mjd, pre-fit residual) and error
\* bar, in fixed-point units
XOf(i) == 20 * i
YOf(i) == 20 * (1 + (i % 3))
ErrOf(i) == 20

\* the pulsars that can be opened: file 1 has no JUMP, file 2 has JUMP1 on
\* its first two TOAs
Files == {1, 2}
NoStash == [some |-> FALSE, table |-> <<>>]
NoPsr ==
    [name |-> 0, all_toas |-> <<>>, selected_toas |-> <<>>, stashed |-> NoStash,
     deleted |-> {}, jumps |-> {}, params |-> 0, fitted |-> FALSE]
\* Pulsar(parfile, timfile, ephem, fitter)
PsrLoad(f) ==
    LET tab == [i \in 1..NToas |->
                  [index |-> i, jump |-> IF f = 2 /\ i <= 2 THEN 1 ELSE 0]]
    IN [name |-> f, all_toas |-> tab, selected_toas |-> IndexCol(tab),
        stashed |-> NoStash, deleted |-> {},
        jumps |-> IF f = 2 THEN {1} ELSE {}, params |-> 0, fitted |-> FALSE]

\* psr.delete_TOAs(indices, selected) -> the selection mask over the TOAs left
PsrDeleteTOAs(p, indices, sel) ==
    LET tab == p.all_toas
        keep == [k \in 1..Len(tab) |-> tab[k].index \notin indices]
        tab2 == KeepSeq(tab, keep)
        sel2 == KeepSeq(sel, keep)
    IN [psr |-> [p EXCEPT !.all_toas = tab2,
                          !.deleted = p.deleted \cup indices,
                          !.selected_toas =
                              IF AnyOf(sel2) THEN IndexCol(KeepSeq(tab2, sel2))
                              ELSE IndexCol(tab2)],
        selected |-> sel2]

\* the TOAs carrying JUMP n
JumpSelect(tab, n) == [k \in 1..Len(tab) |-> tab[k].jump = n]
\* psr.add_jump(selected): removes the JUMP that covers exactly the selected
\* TOAs and returns its mask (kind "list"); refuses a selection that overlaps
\* a JUMP (kind "none"); otherwise adds a JUMP on the selected TOAs and
\* returns its name (kind "str")
PsrAddJump(p, sel) ==
    LET tab == p.all_toas
        hit == {n \in p.jumps :
                   \/ JumpSelect(tab, n) = sel
                   \/ AnyOf(AndMask(JumpSelect(tab, n), sel))}
    IN IF hit # {}
       THEN LET n == SetMin(hit)
            IN IF JumpSelect(tab, n) = sel
               THEN [psr |-> [p EXCEPT
                         !.all_toas = [k \in 1..Len(tab) |->
                             IF tab[k].jump = n THEN [tab[k] EXCEPT !.jump = 0]
                             ELSE tab[k]],
                         !.jumps = p.jumps \ {n}],
                     ret |-> [kind |-> "list", num |-> 0,
                              mask |-> JumpSelect(tab, n)]]
               ELSE [psr |-> p, ret |-> [kind |-> "none", num |-> 0, mask |-> <<>>]]
       ELSE LET n == SetMin((1..(Cardinality(p.jumps) + 1)) \ p.jumps)
            IN [psr |-> [p EXCEPT
                      !.all_toas = [k \in 1..Len(tab) |->
                          IF sel[k] THEN [tab[k] EXCEPT !.jump = n] ELSE tab[k]],
                      !.jumps = p.jumps \cup {n}],
                ret |-> [kind |-> "str", num |-> n, mask |-> <<>>]]

\* ------------------------------------------------------------------- state
VARIABLES
    psr,          \* PlkWidget.psr (NoPsr: None)
    selected,     \* PlkWidget.selected
    jumped,       \* PlkWidget.jumped
    state_stack,  \* PlkWidget.state_stack
    base_state,   \* PlkWidget.base_state ([set |-> FALSE]: no such attribute)
    plot,         \* what the canvas holds: xvals/yvals, axis limits, last draw
    last,         \* the handler that ran last and how it ended
    steps,        \* handlers run so far
    par_path,     \* MainWindow._par_path (0: None)
    tim_path,     \* MainWindow._tim_path (0: None)
    project,      \* ProjectController._model (NoModel: None)
    central,      \* which widget is the main window's central widget
    save_plot,    \* act_save_plot is enabled
    view,         \* PlkView: the model it listens to, whether it shows data
    status,       \* the status bar's message
    mlast,        \* the main-window handler that ran last and how it ended
    widgets,      \* the Qt objects behind _central and _plk_view: alive or deleted
    notified,     \* the controller's most recent notification
    ylim,         \* the (miny, maxy) pair handed to determine_yaxis_units
    ylim_out,     \* what determine_yaxis_units returned for it (NoCall: not called)
    wraps,        \* key dispatch: the selection and the TOAs' pulse-number offsets
    klast,        \* key dispatch: the last canvas key and the handler it reached
    sent,         \* the payload handed to PlkView.on_residuals_changed
    shown,        \* the title of the view's axes, and whether the slot has run
    pmodel,       \* a PulsarModel on its own, and how many TOAs it holds
    emitted,      \* the payloads its residualsChanged signal has carried
    returned,     \* what its last compute_prefit_residuals call returned, and how it went
    loads,        \* the last two pulsar loads: what the caller chose, what the provider got
    session,      \* where the widget's session is: in the event loop or inside a handler
    render,       \* the residuals on the y axis, the y-axis choice and PlkWidget.y_unit
    ctrl,         \* a ProjectController on its own: its _model and the signals it emitted
    mouse,        \* PlkWidget.press, move, pressEvent and rect, and what the last release did
    dragged       \* the click-and-drag that ended a run: its corners and the masks before it

plk_vars == <<psr, selected, jumped, state_stack, base_state, plot, last>>
main_vars ==
    <<par_path, tim_path, project, central, save_plot, view, status, mlast,
      widgets, notified>>
units_vars == <<ylim, ylim_out>>
keys_vars == <<wraps, klast>>
payload_vars == <<sent, shown>>
residuals_vars == <<pmodel, emitted, returned>>
load_vars == <<loads>>
session_vars == <<session>>
render_vars == <<render>>
drag_vars == <<dragged>>
ctrl_vars == <<ctrl>>
mouse_vars == <<mouse>>
more_vars ==
    <<load_vars, session_vars, render_vars, drag_vars, ctrl_vars, mouse_vars>>
aux_vars == <<units_vars, keys_vars, payload_vars, residuals_vars, more_vars>>
vars == <<plk_vars, main_vars, aux_vars, steps>>

\* ------------------------------------------------ PlkWidget: building blocks
\* how a handler ended: an exception left it, that exception came out of a
\* provider call, the canvas was redrawn (plkCanvas.draw() reached), a
\* warning was logged, psr.fit was called
OutOk ==
    [raised |-> FALSE, faulted |-> FALSE, redrawn |-> FALSE, warned |-> FALSE,
     fit_called |-> FALSE]

\* the widget's fields as one value, threaded through a handler's statements
Cur ==
    [psr |-> psr, selected |-> selected, jumped |-> jumped,
     state_stack |-> state_stack, base_state |-> base_state, plot |-> plot,
     out |-> OutOk]

\* no handler of PlkWidget has a try statement: an exception raised in a
\* handler, by its own statements or by a provider call, leaves the handler
Raise(w) == [w EXCEPT !.out.raised = TRUE]
ProviderRaise(w) == [w EXCEPT !.out.raised = TRUE, !.out.faulted = TRUE]
Warn(w) == [w EXCEPT !.out.warned = TRUE]

\* the limits of a freshly cleared axes
DefaultAxes == <<0, Unit, 0, Unit>>

\* the auto-scaled limits of plotResiduals(keepAxes=False): 10 % around the
\* data (and its error bars); matplotlib widens an empty x range by 5 %
AutoAxes(xs) ==
    LET X == {XOf(xs[k]) : k \in 1..Len(xs)}
        xlo == SetMin(X)
        xhi == SetMax(X)
        ylo == SetMin({YOf(xs[k]) - ErrOf(xs[k]) : k \in 1..Len(xs)})
        yhi == SetMax({YOf(xs[k]) + ErrOf(xs[k]) : k \in 1..Len(xs)})
    IN << IF xlo = xhi THEN xlo - (5 * Abs(xlo)) \div 100
          ELSE (xlo + xhi) \div 2 - (11 * (xhi - xlo)) \div 20,
          IF xlo = xhi THEN xhi + (5 * Abs(xhi)) \div 100
          ELSE (xlo + xhi) \div 2 + (11 * (xhi - xlo)) \div 20,
          (ylo + yhi) \div 2 - (11 * (yhi - ylo)) \div 20,
          (ylo + yhi) \div 2 + (11 * (yhi - ylo)) \div 20 >>

\* plotResiduals: the limits are read back from the axes that updatePlot has
\* just cleared (keepAxes) or computed from the data; a fitted pulsar reaches
\* self.randomboxWidget, which PlkWidget never creates
PlotResiduals(w, keepAxes) ==
    IF ~keepAxes /\ Len(w.plot.xvals) = 0
    THEN Raise(w)
    ELSE LET w1 == [w EXCEPT !.plot.axes =
                        IF keepAxes THEN DefaultAxes ELSE AutoAxes(w.plot.xvals)]
         IN IF w1.psr.fitted THEN Raise(w1) ELSE w1

\* updatePlot(keepAxes)
UpdatePlot(w, keepAxes) ==
    LET w0 == [w EXCEPT !.plot.axes = DefaultAxes]
    IN IF w0.psr.name = 0
       THEN [w0 EXCEPT !.out.redrawn = TRUE]
       ELSE LET w1 == PlotResiduals(
                        [w0 EXCEPT !.plot.xvals = IndexCol(w0.psr.all_toas)],
                        keepAxes)
            IN IF w1.out.raised THEN w1 ELSE [w1 EXCEPT !.out.redrawn = TRUE]

\* updateJumped(jump_name)
UpdateJumped(jmp, tab, ret) ==
    CASE ret.kind = "list" -> [k \in 1..Len(jmp) |-> jmp[k] /\ ~ret.mask[k]]
      [] ret.kind = "none" -> jmp
      [] OTHER -> [k \in 1..Len(jmp) |->
                     IF tab[k].jump = ret.num THEN ~jmp[k] ELSE jmp[k]]

RECURSIVE UpdateJumpedEach(_, _, _)
UpdateJumpedEach(jmp, tab, S) ==
    IF S = {} THEN jmp
    ELSE LET n == SetMin(S)
         IN UpdateJumpedEach(
                UpdateJumped(jmp, tab, [kind |-> "str", num |-> n, mask |-> <<>>]),
                tab, S \ {n})

\* updateAllJumped()
UpdateAllJumped(p) == UpdateJumpedEach(Zeros(Len(p.all_toas)), p.all_toas, p.jumps)

\* coordToPoint(cx, cy): the plot index nearest to the click, 0 for None
SqDist(ax, i, cx, cy) ==
    LET W == ax[2] - ax[1]
        H == ax[4] - ax[3]
    IN (XOf(i) - cx) * (XOf(i) - cx) * H * H + (YOf(i) - cy) * (YOf(i) - cy) * W * W

\* a coordToPoint that holds the distance itself, not its square, against
\* clickDist
CoordToPoint_PlainDistance(w, cx, cy) ==
    LET xs == w.plot.xvals
        ax == w.plot.axes
        W == ax[2] - ax[1]
        H == ax[4] - ax[3]
    IN IF w.psr.name = 0 THEN [ind |-> 0, raised |-> FALSE]
       ELSE IF Len(xs) = 0 THEN [ind |-> 0, raised |-> TRUE]
       ELSE LET best == SetMin({SqDist(ax, xs[k], cx, cy) : k \in 1..Len(xs)})
                ind == SetMin({k \in 1..Len(xs) : SqDist(ax, xs[k], cx, cy) = best})
            IN [ind |-> IF best > (W * W * H * H) \div (ClickDistInv * ClickDistInv)
                        THEN 0 ELSE ind,
                raised |-> FALSE]

CoordToPoint(w, cx, cy) ==
    LET xs == w.plot.xvals
        ax == w.plot.axes
        W == ax[2] - ax[1]
        H == ax[4] - ax[3]
    IN IF w.psr.name = 0 THEN [ind |-> 0, raised |-> FALSE]
       ELSE IF Len(xs) = 0 THEN [ind |-> 0, raised |-> TRUE]
       ELSE LET best == SetMin({SqDist(ax, xs[k], cx, cy) : k \in 1..Len(xs)})
                ind == SetMin({k \in 1..Len(xs) : SqDist(ax, xs[k], cx, cy) = best})
            IN [ind |-> IF best > (W * W * H * H) \div ClickDistInv THEN 0 ELSE ind,
                raised |-> FALSE]

\* what raises in this handler run, if anything: a provider call, or the
\* log.error(jump_name, "...") of updateJumped when add_jump returned None
\* (the logger formats its first argument with the others)
Faults == {"none", "add_jump", "delete_TOAs", "log_error"}

\* ------------------------------------------------------ PlkWidget: handlers
\* setPulsar(psr, updates)
SetPulsarW(w, f) ==
    LET p == PsrLoad(f)
        zero == Zeros(Len(p.all_toas))
        w1 == [w EXCEPT !.psr = p, !.selected = zero, !.jumped = UpdateAllJumped(p)]
        w2 == IF w1.base_state.set THEN w1
              ELSE LET b == [set |-> TRUE, psr |-> p, selected |-> zero]
                   IN [w1 EXCEPT !.base_state = b,
                                 !.state_stack = Append(w1.state_stack, b)]
    IN UpdatePlot(w2, FALSE)

\* update()
UpdateW(w) ==
    IF w.psr.name = 0 THEN w
    ELSE LET zero == Zeros(Len(w.psr.all_toas))
             w1 == UpdatePlot([w EXCEPT !.selected = zero, !.jumped = zero], TRUE)
         IN IF w1.out.raised THEN w1
            ELSE [w1 EXCEPT !.state_stack = <<w1.base_state>>]

\* unselect()
UnselectW(w) ==
    IF w.psr.name = 0 THEN Raise(w)
    ELSE UpdatePlot([w EXCEPT !.psr.selected_toas = IndexCol(w.psr.all_toas),
                              !.selected = Zeros(Len(w.psr.all_toas))], TRUE)

\* fit(): the first statement raises (the name NotIplementedError is not
\* defined); nothing after it runs
FitW(w) == Raise(w)

\* a reset that leaves the state stack empty
ResetW_EmptyStack(w) ==
    IF w.psr.name = 0 THEN Raise(w)
    ELSE LET p == w.base_state.psr
             w1 == UpdatePlot([w EXCEPT !.psr = p,
                                        !.selected = Zeros(Len(p.all_toas)),
                                        !.jumped = UpdateAllJumped(p)], FALSE)
         IN IF w1.out.raised THEN w1
            ELSE [w1 EXCEPT !.state_stack = <<>>]

\* a reset that keeps the current pulsar instead of the one in base_state
ResetW_KeepPsr(w) ==
    IF w.psr.name = 0 THEN Raise(w)
    ELSE LET w1 == UpdatePlot([w EXCEPT !.selected = Zeros(Len(w.psr.all_toas)),
                                        !.jumped = UpdateAllJumped(w.psr)], FALSE)
         IN IF w1.out.raised THEN w1
            ELSE [w1 EXCEPT !.state_stack = <<w1.base_state>>]

\* reset()
ResetW(w) ==
    IF w.psr.name = 0 THEN Raise(w)
    ELSE LET p == w.base_state.psr
             w1 == UpdatePlot([w EXCEPT !.psr = p,
                                        !.selected = Zeros(Len(p.all_toas)),
                                        !.jumped = UpdateAllJumped(p)], FALSE)
         IN IF w1.out.raised THEN w1
            ELSE [w1 EXCEPT !.state_stack = <<w1.base_state>>]

\* a revert that does not ask whether the pulsar has been fitted
RevertW_AnyStack(w) ==
    IF Len(w.state_stack) > 0
    THEN LET n == Len(w.state_stack)
             c == w.state_stack[n]
             d == PsrDeleteTOAs(c.psr, c.psr.deleted, c.selected)
         IN Raise([w EXCEPT !.state_stack = SubSeq(w.state_stack, 1, n - 1),
                            !.psr = d.psr,
                            !.selected = d.selected,
                            !.jumped = UpdateAllJumped(d.psr)])
    ELSE Warn(w)

\* revert(): the branch that pops ends at self.colorModeWidget, which
\* PlkWidget never creates
RevertW(w) ==
    IF Len(w.state_stack) > 0 /\ w.psr.fitted
    THEN LET n == Len(w.state_stack)
             c == w.state_stack[n]
             d == PsrDeleteTOAs(c.psr, c.psr.deleted, c.selected)
         IN Raise([w EXCEPT !.state_stack = SubSeq(w.state_stack, 1, n - 1),
                            !.psr = d.psr,
                            !.selected = d.selected,
                            !.jumped = UpdateAllJumped(d.psr)])
    ELSE Warn(w)

\* a left click that selects instead of toggling
LeftClickW_SelectOnly(w, ind) ==
    IF ind > Len(w.selected) THEN Raise(w)
    ELSE LET w1 == UpdatePlot([w EXCEPT !.selected[ind] = TRUE], TRUE)
         IN IF w1.out.raised THEN w1
            ELSE [w1 EXCEPT !.psr.selected_toas =
                                IndexCol(KeepSeq(w1.psr.all_toas, w1.selected))]

\* stationaryClick(event), event.button == 1, the click resolved to ind
LeftClickW(w, ind) ==
    IF ind > Len(w.selected) THEN Raise(w)
    ELSE LET w1 == UpdatePlot(
                      [w EXCEPT !.selected[ind] = ~w.selected[ind]], TRUE)
         IN IF w1.out.raised THEN w1
            ELSE IF w1.selected[ind] \/ AnyOf(w1.selected)
            THEN [w1 EXCEPT !.psr.selected_toas =
                                IndexCol(KeepSeq(w1.psr.all_toas, w1.selected))]
            ELSE w1

\* a right click that drops the mask delete_TOAs returns
RightClickW_KeepMask(w, ind, fault) ==
    IF ind > Len(w.psr.all_toas) \/ ind > Len(w.selected) THEN Raise(w)
    ELSE LET d == PsrDeleteTOAs(w.psr, {w.psr.all_toas[ind].index}, w.selected)
         IN UpdatePlot([w EXCEPT !.psr = d.psr,
                                 !.jumped = UpdateAllJumped(d.psr)], TRUE)

\* stationaryClick(event), event.button == 3, the click resolved to ind
RightClickW(w, ind, fault) ==
    IF ind > Len(w.psr.all_toas) \/ ind > Len(w.selected) THEN Raise(w)
    ELSE
    LET toa_ind == w.psr.all_toas[ind].index
        sudo_select_mask == [Zeros(Len(w.selected)) EXCEPT ![ind] = TRUE]
        unselect_jump_stat == KeepSeq(w.jumped, NotMask(sudo_select_mask))
        a == PsrAddJump(w.psr, sudo_select_mask)
        w1 == IF w.jumped[ind]
              THEN [w EXCEPT !.psr = a.psr,
                             !.jumped = UpdateJumped(w.jumped, a.psr.all_toas, a.ret)]
              ELSE w
        d == PsrDeleteTOAs(w1.psr, {toa_ind}, w1.selected)
    IN IF w.jumped[ind] /\ fault = "add_jump" THEN ProviderRaise(w)
       ELSE IF w.jumped[ind] /\ a.ret.kind = "none" /\ fault = "log_error"
       THEN Raise(w)
       ELSE IF fault = "delete_TOAs" THEN ProviderRaise(w1)
       ELSE UpdatePlot([w1 EXCEPT !.psr = d.psr,
                                  !.selected = d.selected,
                                  !.jumped = OrMask(UpdateAllJumped(d.psr),
                                                    unselect_jump_stat)], TRUE)

\* stationaryClick(event) for a click inside the axes
StationaryClickW(w, button, cx, cy, fault) ==
    LET r == CoordToPoint(w, cx, cy)
    IN IF r.raised THEN Raise(w)
       ELSE IF r.ind = 0 THEN w
       ELSE IF button = RightButton THEN RightClickW(w, r.ind, fault)
       ELSE IF button = LeftButton THEN LeftClickW(w, r.ind)
       ELSE w

\* clickAndDrag(event): press at (px, py), release at (rx, ry)
ClickAndDragW_Inclusive(w, inaxes, px, py, rx, ry) ==
    IF ~inaxes THEN w
    ELSE IF w.psr.name = 0 \/ Len(w.plot.xvals) # Len(w.selected) THEN Raise(w)
    ELSE
    LET xmin == Min(px, rx)
        xmax == Max(px, rx)
        ymin == Min(py, ry)
        ymax == Max(py, ry)
        xs == w.plot.xvals
        inside == [k \in 1..Len(xs) |->
                      /\ XOf(xs[k]) >= xmin /\ XOf(xs[k]) <= xmax
                      /\ YOf(xs[k]) >= ymin /\ YOf(xs[k]) <= ymax]
        w1 == UpdatePlot([w EXCEPT !.selected = OrMask(w.selected, inside)], TRUE)
    IN IF w1.out.raised THEN w1
       ELSE IF AnyOf(w1.selected)
       THEN [w1 EXCEPT !.psr.selected_toas =
                           IndexCol(KeepSeq(w1.psr.all_toas, w1.selected))]
       ELSE w1

ClickAndDragW(w, inaxes, px, py, rx, ry) ==
    IF ~inaxes THEN w
    ELSE IF w.psr.name = 0 \/ Len(w.plot.xvals) # Len(w.selected) THEN Raise(w)
    ELSE
    LET xmin == Min(px, rx)
        xmax == Max(px, rx)
        ymin == Min(py, ry)
        ymax == Max(py, ry)
        xs == w.plot.xvals
        inside == [k \in 1..Len(xs) |->
                      /\ XOf(xs[k]) > xmin /\ XOf(xs[k]) < xmax
                      /\ YOf(xs[k]) > ymin /\ YOf(xs[k]) < ymax]
        w1 == UpdatePlot([w EXCEPT !.selected = OrMask(w.selected, inside)], TRUE)
    IN IF w1.out.raised THEN w1
       ELSE IF AnyOf(w1.selected)
       THEN [w1 EXCEPT !.psr.selected_toas =
                           IndexCol(KeepSeq(w1.psr.all_toas, w1.selected))]
       ELSE w1

\* handleKeyD
HandleKeyDW(w, fault) ==
    IF w.psr.name = 0 THEN Raise(w)
    ELSE
    LET unselect_jump_status == KeepSeq(w.jumped, NotMask(w.selected))
        overlap == AnyOf(AndMask(w.jumped, w.selected))
        a == PsrAddJump(w.psr, w.selected)
        w1 == IF overlap
              THEN [w EXCEPT !.psr = a.psr,
                             !.jumped = UpdateJumped(w.jumped, a.psr.all_toas, a.ret)]
              ELSE w
        d == PsrDeleteTOAs(w1.psr,
                           IndexSet(KeepSeq(w1.psr.all_toas, w1.selected)),
                           w1.selected)
    IN IF overlap /\ fault = "add_jump" THEN ProviderRaise(w)
       ELSE IF overlap /\ a.ret.kind = "none" /\ fault = "log_error" THEN Raise(w)
       ELSE IF fault = "delete_TOAs" THEN ProviderRaise(w1)
       ELSE UpdatePlot([w1 EXCEPT !.psr = d.psr,
                                  !.selected = d.selected,
                                  !.jumped = OrMask(UpdateAllJumped(d.psr),
                                                    unselect_jump_status)], TRUE)

\* handleKeyJ: ends at self.randomboxWidget, which PlkWidget never creates,
\* before the plot is updated
HandleKeyJW(w, fault) ==
    IF w.psr.name = 0 THEN Raise(w)
    ELSE IF fault = "add_jump" THEN ProviderRaise(w)
    ELSE LET a == PsrAddJump(w.psr, w.selected)
         IN IF a.ret.kind = "none" /\ fault = "log_error" THEN Raise(w)
            ELSE Raise([w EXCEPT
                !.psr = [a.psr EXCEPT !.selected_toas = IndexCol(a.psr.all_toas)],
                !.jumped = UpdateJumped(w.jumped, a.psr.all_toas, a.ret),
                !.selected = Zeros(Len(a.psr.all_toas))])

\* handleKeyT
HandleKeyTW(w) ==
    IF w.psr.name = 0 THEN Raise(w)
    ELSE IF ~AnyOf(w.selected)
    THEN IF ~w.psr.stashed.some THEN w
         ELSE LET p == [w.psr EXCEPT !.all_toas = w.psr.stashed.table,
                                     !.stashed = NoStash]
              IN UpdatePlot([w EXCEPT !.psr = p,
                                      !.selected = Zeros(Len(p.all_toas)),
                                      !.jumped = UpdateAllJumped(p)], FALSE)
    ELSE IF /\ ~w.psr.stashed.some
            /\ AnyOf(AndMask(w.selected, UpdateAllJumped(w.psr)))
    THEN Warn(w)
    ELSE LET st == IF w.psr.stashed.some THEN w.psr.stashed
                   ELSE [some |-> TRUE, table |-> w.psr.all_toas]
             tab == KeepSeq(w.psr.all_toas, NotMask(w.selected))
             p == [w.psr EXCEPT !.stashed = st, !.all_toas = tab,
                                !.selected_toas = IndexCol(tab)]
         IN UpdatePlot([w EXCEPT !.psr = p,
                                 !.selected = Zeros(Len(tab)),
                                 !.jumped = UpdateAllJumped(p)], FALSE)

\* handleKeyU
HandleKeyUW(w) == UnselectW(w)

\* the table["clusters"] column: TOAs come in clusters of two
ClusterOf(i) == (i - 1) \div 2

\* handleKeyV, the loop over the clusters num..last
RECURSIVE JumpClusters(_, _, _, _, _)
JumpClusters(w, all_jumped, num, top, fault) ==
    IF num > top \/ w.out.raised THEN w
    ELSE LET tab == w.psr.all_toas
             cluster_bool == [k \in 1..Len(tab) |-> ClusterOf(tab[k].index) = num]
             a == PsrAddJump([w.psr EXCEPT !.selected_toas =
                                 IndexCol(KeepSeq(tab, cluster_bool))], cluster_bool)
         IN IF \/ AnyOf(AndMask(cluster_bool, w.selected))
               \/ AnyOf(AndMask(cluster_bool, all_jumped))
            THEN JumpClusters(w, all_jumped, num + 1, top, fault)
            ELSE IF fault = "add_jump"
            THEN ProviderRaise([w EXCEPT !.psr.selected_toas =
                                     IndexCol(KeepSeq(tab, cluster_bool))])
            ELSE JumpClusters(
                     [w EXCEPT !.psr = a.psr,
                               !.jumped = UpdateJumped(w.jumped, a.psr.all_toas, a.ret)],
                     all_jumped, num + 1, top, fault)

\* handleKeyV: a selection of every TOA ends at self.all_toas, which
\* PlkWidget does not have
HandleKeyVW(w, fault) ==
    IF w.psr.name = 0 \/ Len(w.psr.all_toas) = 0 THEN Raise(w)
    ELSE LET tab == w.psr.all_toas
             top == SetMax({ClusterOf(tab[k].index) : k \in 1..Len(tab)})
             w1 == JumpClusters(w, UpdateAllJumped(w.psr), 0, top, fault)
         IN IF w1.out.raised THEN w1
            ELSE IF AllOf(w1.selected) THEN Raise(w1)
            ELSE UpdatePlot(w1, TRUE)

\* ------------------------------------- MainWindow, ProjectController, model
\* the files a file dialog can return (absolute paths; 0: dialog cancelled)
Paths == {1, 2}
\* how PulsarModel.load goes: it loads, it loads but the residuals cannot be
\* computed, PINT is missing, get_model_and_toas raises
LoadOutcomes == {"ok", "no_residuals", "ImportError", "Exception"}

\* a PulsarModel object: id tells objects apart (0: None), loaded is _model
\* and _toas, residuals is _residuals
NoModel ==
    [id |-> 0, par_path |-> 0, tim_path |-> 0, loaded |-> FALSE, residuals |-> FALSE]
\* PulsarModel.__init__
NewModel(id) == [NoModel EXCEPT !.id = id]
\* PulsarModel.clear
ModelClear(pm) == NewModel(pm.id)
\* PulsarModel.is_loaded
IsLoaded(pm) == pm.id # 0 /\ pm.loaded

\* PulsarModel.load: the paths are resolved (a dialog's absolute path is its
\* own resolution); a failure inside the try block clears the model and is
\* raised again; a failure to compute the residuals is logged only
ModelLoad(pm, par, tim, outcome) ==
    CASE outcome = "ImportError" -> [model |-> pm, raised |-> TRUE]
      [] outcome = "Exception" -> [model |-> ModelClear(pm), raised |-> TRUE]
      [] OTHER ->
           [model |-> [pm EXCEPT !.loaded = TRUE, !.par_path = par, !.tim_path = tim,
                                 !.residuals = (outcome = "ok")],
            raised |-> FALSE]

\* the main window's fields as one value, threaded through a handler
MCur ==
    [par_path |-> par_path, tim_path |-> tim_path, project |-> project,
     central |-> central, save_plot |-> save_plot, view |-> view,
     status |-> status, raised |-> FALSE, critical |-> FALSE,
     opened |-> FALSE, fresh |-> 1 + steps,
     widgets |-> widgets, notified |-> notified, slot_raised |-> FALSE]

\* QMainWindow.setCentralWidget(widget): the window hides the central widget
\* it had and marks it for deletion (deleteLater) before it takes the new one
SetCentralWidget(m, widget) ==
    [m EXCEPT !.central = widget,
              !.widgets = IF m.central \notin {"none", widget}
                          THEN [m.widgets EXCEPT ![m.central] = "doomed"]
                          ELSE m.widgets]
\* a call on a widget whose Qt object has been deleted raises RuntimeError;
\* raised inside a slot, it ends the slot and goes to sys.excepthook
\* (app.py:14-24), and the emitter carries on
SlotRaise(m) == [m EXCEPT !.slot_raised = TRUE]
\* returning to the event loop carries out the pending deletions
ReturnToEventLoop(m) ==
    [m EXCEPT !.widgets = [x \in DOMAIN m.widgets |->
                              IF m.widgets[x] = "doomed" THEN "deleted"
                              ELSE m.widgets[x]],
              !.central = IF m.central # "none" /\ m.widgets[m.central] = "doomed"
                          THEN "none" ELSE m.central]

\* MainWindow._show_placeholder_view, the slot of projectClosed
ShowPlaceholderView(m) ==
    IF m.widgets.plk_view = "deleted" \/ m.widgets.placeholder = "deleted"
    THEN SlotRaise(m)
    ELSE [SetCentralWidget(m, "placeholder") EXCEPT !.save_plot = FALSE]

\* the PulsarModel objects there can be: open_project makes a new one each time
ModelIds == 1..(MaxSteps + 1)
\* what the view's axes show: the title set by _setup_ui and _clear_plot, by
\* on_residuals_changed, and the text of _show_error_plot
NoDataTitle == "No data loaded"
DataTitle == "Pre-Fit Timing Residuals"
ErrorTitle == "Error plotting data"
Titles == {NoDataTitle, DataTitle, ErrorTitle}

\* a residuals payload: kind is its Python type ("None", "dict" or "other");
\* of a dict, mjd, res and err are [t, len] with t "absent", "list",
\* "ndarray" or "other", n is [t, v] with t "absent", "None" or "int", rms_us is
\* "absent", "number" or "text", and plottable tells whether Axes.errorbar
\* accepts the three arrays (it refuses negative error bars, for one)
Field(t, len) == [t |-> t, len |-> len]
Absent == Field("absent", 0)
\* payload.get(key, []), payload.get("n", 0), payload.get("rms_us", 0.0)
GetField(f) == IF f = Absent THEN Field("list", 0) ELSE f
NumberN(v) == [t |-> "int", v |-> v]
AbsentN == [t |-> "absent", v |-> 0]
NoneN == [t |-> "None", v |-> 0]
GetN(n) == IF n = AbsentN THEN NumberN(0) ELSE n
GetRms(r) == IF r = "absent" THEN "number" ELSE r
IsEmptyDict(payload) ==
    /\ payload.kind = "dict"
    /\ payload.mjd = Absent /\ payload.res = Absent /\ payload.err = Absent
    /\ payload.n = AbsentN /\ payload.rms_us = "absent"

\* PlkView.on_residuals_changed(payload): the title the axes end with
OnResidualsChanged_IgnoreMismatch(payload) ==
    IF payload.kind # "dict" \/ IsEmptyDict(payload) THEN NoDataTitle
    ELSE LET mjd == GetField(payload.mjd)
             res == GetField(payload.res)
             err == GetField(payload.err)
             n == GetN(payload.n)
         IN IF \E f \in {mjd, res, err} : f.t \notin {"list", "ndarray"}
            THEN NoDataTitle
            ELSE IF mjd.len = 0 \/ res.len = 0 \/ err.len = 0 \/ n = NumberN(0)
            THEN NoDataTitle
            ELSE IF ~payload.plottable \/ GetRms(payload.rms_us) # "number"
            THEN ErrorTitle
            ELSE DataTitle

OnResidualsChanged(payload) ==
    IF payload.kind # "dict" \/ IsEmptyDict(payload) THEN NoDataTitle
    ELSE LET mjd == GetField(payload.mjd)
             res == GetField(payload.res)
             err == GetField(payload.err)
             n == GetN(payload.n)
         IN IF \E f \in {mjd, res, err} : f.t \notin {"list", "ndarray"}
            THEN NoDataTitle
            ELSE IF mjd.len = 0 \/ res.len = 0 \/ err.len = 0 \/ n = NumberN(0)
            THEN NoDataTitle
            ELSE IF mjd.len # res.len \/ mjd.len # err.len
            THEN NoDataTitle
            ELSE IF ~payload.plottable \/ GetRms(payload.rms_us) # "number"
            THEN ErrorTitle
            ELSE DataTitle

\* PlkView._plot_current_residuals: the payload built from a model that has
\* residuals (one entry per TOA)
CurrentPayload ==
    [kind |-> "dict", mjd |-> Field("ndarray", NToas), res |-> Field("ndarray", NToas),
     err |-> Field("ndarray", NToas), n |-> NumberN(NToas), rms_us |-> "number",
     plottable |-> TRUE]

\* PlkView.__init__ and _setup_ui; conns: how many times on_residuals_changed
\* is connected to each model's residualsChanged; connects, disconnects: the
\* calls made so far
NewView ==
    [model |-> 0, title |-> NoDataTitle,
     conns |-> [i \in ModelIds |-> 0],
     connects |-> [i \in ModelIds |-> 0],
     disconnects |-> [i \in ModelIds |-> 0]]

\* PlkView.set_model (every model here has the residualsChanged signal; a
\* disconnect that finds no connection raises and is passed over)
ViewSetModel_NoDisconnect(v, pm) ==
    IF pm.id = 0 THEN [v EXCEPT !.model = 0]
    ELSE [v EXCEPT !.model = pm.id,
                   !.conns[pm.id] = @ + 1,
                   !.connects[pm.id] = @ + 1,
                   !.title = IF pm.residuals THEN OnResidualsChanged(CurrentPayload)
                             ELSE @]

ViewSetModel(v, pm) ==
    LET v1 == IF v.model # 0
              THEN [v EXCEPT !.disconnects[v.model] = @ + 1,
                             !.conns[v.model] = IF @ > 0 THEN @ - 1 ELSE @]
              ELSE v
        v2 == [v1 EXCEPT !.model = pm.id]
    IN IF pm.id # 0
       THEN [v2 EXCEPT !.conns[pm.id] = @ + 1,
                       !.connects[pm.id] = @ + 1,
                       !.title = IF pm.residuals
                                 THEN OnResidualsChanged(CurrentPayload)
                                 ELSE @]
       ELSE v2

\* MainWindow._on_project_loaded and _show_plotting_view, the slot of
\* projectLoaded
OnProjectLoaded(m) ==
    LET m1 == [m EXCEPT !.status = "Loaded"]
    IN IF m1.widgets.placeholder = "deleted" \/ m1.widgets.plk_view = "deleted"
       THEN SlotRaise(m1)
       ELSE [SetCentralWidget(m1, "plk_view") EXCEPT
                !.view = ViewSetModel(m1.view, m1.project), !.save_plot = TRUE]

\* ProjectController.close_project
CloseProject(m) ==
    IF m.project.id # 0
    THEN ShowPlaceholderView([m EXCEPT !.project = NoModel, !.notified = "closed"])
    ELSE m

\* ProjectController.open_project
OpenProject(m, outcome) ==
    LET m1 == CloseProject(m)
        r == ModelLoad(NewModel(m1.fresh), m1.par_path, m1.tim_path, outcome)
        m2 == [m1 EXCEPT !.project = r.model, !.opened = TRUE]
    IN IF r.raised THEN [m2 EXCEPT !.raised = TRUE]
       ELSE OnProjectLoaded([m2 EXCEPT !.notified = "loaded"])

\* MainWindow._maybe_enable_project
MaybeEnableProject(m, outcome) ==
    IF m.par_path # 0 /\ m.tim_path # 0
    THEN LET m1 == OpenProject([m EXCEPT !.status = "Loading"], outcome)
         IN IF m1.raised
            THEN [m1 EXCEPT !.raised = FALSE, !.status = "Error", !.critical = TRUE]
            ELSE m1
    ELSE [m EXCEPT !.status = "Waiting"]

\* MainWindow._on_open_par
OnOpenPar(m, path, outcome) ==
    IF path = 0 THEN m
    ELSE MaybeEnableProject([m EXCEPT !.par_path = path, !.status = "PAR"], outcome)

\* MainWindow._on_open_tim
OnOpenTim(m, path, outcome) ==
    IF path = 0 THEN m
    ELSE MaybeEnableProject([m EXCEPT !.tim_path = path, !.status = "TIM"], outcome)

\* MainWindow._on_close_project
OnCloseProject(m) ==
    [CloseProject([m EXCEPT !.par_path = 0, !.tim_path = 0])
        EXCEPT !.status = "Closed"]

\* ---------------------------------------------------------------- actions
\* op, ind, out: the handler, the plot index its click resolved to, how it
\* ended; sel0, par0: the selection and model parameters it started from
\* (kept for left clicks and fits); prev, prev_ind: the handler before it
NoLast ==
    [op |-> "init", ind |-> 0, out |-> OutOk, sel0 |-> <<>>, par0 |-> 0,
     prev |-> "init", prev_ind |-> 0]

\* op: the handler; opened: it called open_project; critical: it showed the
\* error dialog; raised: an exception left it
NoMLast ==
    [op |-> "init", opened |-> FALSE, critical |-> FALSE, raised |-> FALSE,
     slot_raised |-> FALSE]

\* a handler ran from the current state and left the widget as w
Apply(op, ind, w) ==
    /\ psr' = w.psr
    /\ selected' = w.selected
    /\ jumped' = w.jumped
    /\ state_stack' = w.state_stack
    /\ base_state' = w.base_state
    /\ plot' = w.plot
    /\ last' = [op |-> op, ind |-> ind, out |-> w.out,
                sel0 |-> IF op \in {"left", "fit"} THEN selected ELSE <<>>,
                par0 |-> IF op = "fit" THEN psr.params ELSE 0,
                prev |-> IF last.op \in {"left", "fit"} THEN last.op ELSE "other",
                prev_ind |-> IF last.op = "left" THEN last.ind ELSE 0]

Do(op, ind, fault, w) ==
    /\ steps < MaxSteps
    /\ steps' = steps + 1
    /\ UNCHANGED <<main_vars, aux_vars>>
    /\ Apply(op, ind, w)

\* where a mouse event can land: on a plotted TOA position or just beside it,
\* inside the current axis limits
ClickPoints ==
    {pt \in {<<XOf(i) + dx, YOf(i)>> : i \in 1..NToas, dx \in {0, 2}} :
        /\ plot.axes[1] <= pt[1] /\ pt[1] <= plot.axes[2]
        /\ plot.axes[3] <= pt[2] /\ pt[2] <= plot.axes[4]}
\* the corners of a drag: between the TOA columns, below or above the data
DragPoints ==
    {pt \in {<<XOf(i) - 10, y>> : i \in 1..(NToas + 1), y \in {10, 90}} :
        /\ plot.axes[1] <= pt[1] /\ pt[1] <= plot.axes[2]
        /\ plot.axes[3] <= pt[2] /\ pt[2] <= plot.axes[4]}

\* nothing has been handed to a function that is checked on its own
NoCall == [called |-> FALSE]

InitWidgets ==
    /\ psr = NoPsr
    /\ selected = <<>>
    /\ jumped = <<>>
    /\ state_stack = <<>>
    /\ base_state = [set |-> FALSE, psr |-> NoPsr, selected |-> <<>>]
    /\ plot = [xvals |-> <<>>, axes |-> DefaultAxes]
    /\ last = NoLast
    /\ steps = 0
    /\ par_path = 0
    /\ tim_path = 0
    /\ project = NoModel
    /\ central = "placeholder"
    /\ save_plot = FALSE
    /\ view = NewView
    /\ status = "Ready"
    /\ mlast = NoMLast
    /\ widgets = [placeholder |-> "alive", plk_view |-> "alive"]
    /\ notified = "none"

InitUnitsIdle ==
    /\ ylim = NoCall
    /\ ylim_out = NoCall

NoKey == [key |-> <<>>, action |-> "none"]

InitKeysIdle ==
    /\ wraps = [selected |-> <<>>, pn |-> <<>>]
    /\ klast = NoKey

InitPayloadIdle ==
    /\ sent = NoCall
    /\ shown = [title |-> NoDataTitle, called |-> FALSE]

InitResidualsIdle ==
    /\ pmodel = [pm |-> NoModel, ntoas |-> 0]
    /\ emitted = <<>>
    /\ returned = NoCall

InitLoadIdle == loads = <<>>

InitSessionIdle == session = "Idle"

\* no pulsar: nothing plotted, the y axis on pre-fit, no y_unit attribute
InitRenderIdle == render = [resids |-> <<>>, yid |-> "pre-fit", y_unit |-> "unset"]

NoDrag == [done |-> FALSE]
InitDragIdle == dragged = NoDrag

\* ProjectController.__init__
InitCtrlIdle == ctrl = [model |-> NoModel, signals |-> <<>>, raised |-> FALSE]

\* initSettings: press = False, move = False; no pressEvent and no rect
\* attribute; ev .. raised describe the last canvas event
NoMouse ==
    [press |-> FALSE, move |-> FALSE, rect |-> FALSE, at |-> <<0, 0>>,
     ev |-> "none", had_press |-> FALSE, had_move |-> FALSE, invoked |-> "none",
     raised |-> FALSE]
InitMouseIdle == mouse = NoMouse

InitMoreIdle ==
    /\ InitLoadIdle
    /\ InitSessionIdle
    /\ InitRenderIdle
    /\ InitDragIdle
    /\ InitCtrlIdle
    /\ InitMouseIdle

Init ==
    /\ InitWidgets
    /\ InitMoreIdle
    /\ InitUnitsIdle
    /\ InitKeysIdle
    /\ InitPayloadIdle
    /\ InitResidualsIdle

SetPulsar == \E f \in Files : Do("setPulsar", f, "none", SetPulsarW(Cur, f))
Update == Do("update", 0, "none", UpdateW(Cur))
Fit == Do("fit", 0, "none", FitW(Cur))
Reset == Do("reset", 0, "none", ResetW(Cur))
Revert == Do("revert", 0, "none", RevertW(Cur))
LeftClick ==
    \E pt \in ClickPoints :
        Do("left", CoordToPoint(Cur, pt[1], pt[2]).ind, "none",
           StationaryClickW(Cur, LeftButton, pt[1], pt[2], "none"))
RightClick ==
    \E pt \in ClickPoints, fault \in Faults :
        Do("right", CoordToPoint(Cur, pt[1], pt[2]).ind, fault,
           StationaryClickW(Cur, RightButton, pt[1], pt[2], fault))
Drag ==
    \E p \in DragPoints, r \in DragPoints, inaxes \in BOOLEAN :
        Do("drag", 0, "none", ClickAndDragW(Cur, inaxes, p[1], p[2], r[1], r[2]))
KeyD == \E fault \in Faults : Do("d", 0, fault, HandleKeyDW(Cur, fault))
KeyJ == \E fault \in Faults : Do("j", 0, fault, HandleKeyJW(Cur, fault))
KeyT == Do("t", 0, "none", HandleKeyTW(Cur))
KeyU == Do("u", 0, "none", HandleKeyUW(Cur))
KeyV == \E fault \in Faults : Do("v", 0, fault, HandleKeyVW(Cur, fault))

Next ==
    \/ SetPulsar
    \/ Update
    \/ Fit
    \/ Reset
    \/ Revert
    \/ LeftClick
    \/ RightClick
    \/ Drag
    \/ KeyD
    \/ KeyJ
    \/ KeyT
    \/ KeyU
    \/ KeyV

Spec == Init /\ [][Next]_vars

\* a main-window handler ran from the current state and left the window as m
DoMain(op, m) ==
    /\ steps < MaxSteps
    /\ steps' = steps + 1
    /\ UNCHANGED <<plk_vars, aux_vars>>
    /\ par_path' = m.par_path
    /\ tim_path' = m.tim_path
    /\ project' = m.project
    /\ central' = ReturnToEventLoop(m).central
    /\ widgets' = ReturnToEventLoop(m).widgets
    /\ notified' = m.notified
    /\ save_plot' = m.save_plot
    /\ view' = m.view
    /\ status' = m.status
    /\ mlast' = [op |-> op, opened |-> m.opened, critical |-> m.critical,
                 raised |-> m.raised, slot_raised |-> m.slot_raised]

OpenPar ==
    \E path \in Paths \cup {0}, outcome \in LoadOutcomes :
        DoMain("open_par", OnOpenPar(MCur, path, outcome))
OpenTim ==
    \E path \in Paths \cup {0}, outcome \in LoadOutcomes :
        DoMain("open_tim", OnOpenTim(MCur, path, outcome))
CloseProjectAction == DoMain("close", OnCloseProject(MCur))

NextMain ==
    \/ OpenPar
    \/ OpenTim
    \/ CloseProjectAction

SpecMain == Init /\ [][NextMain]_vars

\* ------------------------------------------- PlkWidget.determine_yaxis_units
\* A quantity is an amount of time, kept here in whole microseconds, and the
\* unit it is expressed in; its number is us / UsPer(unit).
Units == {"us", "ms", "s"}
Quantity(us, unit) == [us |-> us, unit |-> unit]
\* Quantity.to(unit): the same amount, expressed in unit
To(q, unit) == [q EXCEPT !.unit = unit]
\* maxy - miny: the result takes the unit of the left operand
Sub(a, b) == Quantity(a.us - b.us, a.unit)

\* determine_yaxis_units(miny, maxy)
DetermineYaxisUnits_AtLeast(miny, maxy) ==
    LET diff == Sub(maxy, miny) IN
    IF diff.us >= SecondsSpread
    THEN [miny |-> To(miny, "s"), maxy |-> To(maxy, "s")]
    ELSE IF diff.us >= MillisSpread
    THEN [miny |-> To(miny, "ms"), maxy |-> To(maxy, "ms")]
    ELSE [miny |-> To(miny, "us"), maxy |-> To(maxy, "us")]

DetermineYaxisUnits(miny, maxy) ==
    LET diff == Sub(maxy, miny) IN
    IF diff.us > SecondsSpread
    THEN [miny |-> To(miny, "s"), maxy |-> To(maxy, "s")]
    ELSE IF diff.us > MillisSpread
    THEN [miny |-> To(miny, "ms"), maxy |-> To(maxy, "ms")]
    ELSE IF diff.us <= MillisSpread
    THEN [miny |-> To(miny, "us"), maxy |-> To(maxy, "us")]
    ELSE [miny |-> miny, maxy |-> maxy]

\* the residual ranges tried: lower ends and spreads, in microseconds
LowerEnds == {0 - 100000, 0 - 200, 0, 7}
Spreads ==
    {0 - 5, 0, 1, MillisSpread - 1, MillisSpread, MillisSpread + 1, 5000,
     SecondsSpread - 1, SecondsSpread, SecondsSpread + 1, 300000}

InitUnits ==
    /\ InitWidgets
    /\ InitMoreIdle
    /\ \E lo \in LowerEnds, d \in Spreads, unit \in Units :
          ylim = [called |-> TRUE, miny |-> Quantity(lo, unit),
                  maxy |-> Quantity(lo + d, unit)]
    /\ ylim_out = NoCall
    /\ InitKeysIdle
    /\ InitPayloadIdle
    /\ InitResidualsIdle

CallDetermineYaxisUnits ==
    /\ ylim_out = NoCall
    /\ ylim_out' = [called |-> TRUE] @@ DetermineYaxisUnits(ylim.miny, ylim.maxy)
    /\ UNCHANGED <<plk_vars, main_vars, keys_vars, payload_vars, residuals_vars,
                   more_vars, ylim, steps>>

NextUnits == CallDetermineYaxisUnits

SpecUnits == InitUnits /\ [][NextUnits]_vars

\* ----------------------------------------- PlkWidget: keys from the canvas
\* A matplotlib key string is a sequence of characters; "ctrl+=" is
\* <<"c", "t", "r", "l", "+", "=">>.
\* str.split("+")
RECURSIVE SplitPlus(_, _, _)
SplitPlus(str, piece, done) ==
    IF str = <<>> THEN Append(done, piece)
    ELSE IF Head(str) = "+" THEN SplitPlus(Tail(str), <<>>, Append(done, piece))
    ELSE SplitPlus(Tail(str), Append(piece, Head(str)), done)

\* key_map: the modifier names and the named symbol keys (the arrow,
\* function, enter, backspace and escape entries are not needed here)
ModifierNames ==
    {<<"c", "o", "n", "t", "r", "o", "l">>, <<"c", "t", "r", "l">>,
     <<"a", "l", "t">>, <<"s", "h", "i", "f", "t">>,
     <<"s", "u", "p", "e", "r">>, <<"c", "m", "d">>}
key_map(name) ==
    CASE name \in {<<"c", "o", "n", "t", "r", "o", "l">>, <<"c", "t", "r", "l">>}
            -> "ControlModifier"
      [] name = <<"a", "l", "t">> -> "AltModifier"
      [] name = <<"s", "h", "i", "f", "t">> -> "ShiftModifier"
      [] name \in {<<"s", "u", "p", "e", "r">>, <<"c", "m", "d">>} -> "MetaModifier"
      [] name = <<"u", "n", "d", "e", "r", "s", "c", "o", "r", "e">> -> "Key_Underscore"
      [] name = <<"m", "i", "n", "u", "s">> -> "Key_Minus"
      [] name = <<"p", "l", "u", "s">> -> "Key_Plus"
      [] name = <<"e", "q", "u", "a", "l">> -> "Key_Equal"
      [] name = <<"l", "e", "s", "s">> -> "Key_Less"
      [] name = <<"g", "r", "e", "a", "t", "e", "r">> -> "Key_Greater"
      [] name = <<"c", "o", "m", "m", "a">> -> "Key_Comma"
      [] name = <<"p", "e", "r", "i", "o", "d">> -> "Key_Period"
      [] name = <<"s", "p", "a", "c", "e">> -> "Key_Space"
      [] OTHER -> "absent"

\* ord(key.upper()) as the Qt key it equals; Qt's key codes of the printable
\* ASCII characters are their character codes
OrdUpper(ch) ==
    CASE ch = "+" -> "Key_Plus"
      [] ch = "=" -> "Key_Equal"
      [] ch = "-" -> "Key_Minus"
      [] ch = "_" -> "Key_Underscore"
      [] ch = "<" -> "Key_Less"
      [] ch = ">" -> "Key_Greater"
      [] ch = "," -> "Key_Comma"
      [] ch = "." -> "Key_Period"
      [] ch = "a" -> "Key_A"
      [] ch = "b" -> "Key_B"
      [] ch = "1" -> "Key_1"
      [] OTHER -> "Key_unknown"

\* mpl_key_to_qt_key(mpl_key): (qt_key, qt_mod); qt_key 0 is "none", qt_mod
\* is the set of modifiers or-ed together
RECURSIVE KeysLoop(_, _, _)
KeysLoop(keys, qt_key, qt_mod) ==
    IF keys = <<>> THEN <<qt_key, qt_mod>>
    ELSE LET key == Head(keys) IN
         IF key_map(key) # "absent"
         THEN IF key \in ModifierNames
              THEN KeysLoop(Tail(keys), qt_key, qt_mod \cup {key_map(key)})
              ELSE KeysLoop(Tail(keys), key_map(key), qt_mod)
         ELSE IF Len(key) = 1
         THEN KeysLoop(Tail(keys), OrdUpper(key[1]), qt_mod)
         ELSE KeysLoop(Tail(keys), qt_key, qt_mod)

mpl_key_to_qt_key(mpl_key) == KeysLoop(SplitPlus(mpl_key, <<>>, <<>>), "none", {})

\* key_handlers.get((ukey, modifiers), None): the entries of the keys above
key_handlers(ukey, modifiers) ==
    IF modifiers # {} THEN "None"
    ELSE CASE ukey = "Key_A" -> "handleKeyA"
           [] ukey = "Key_B" -> "handleKeyB"
           [] ukey \in {"Key_Underscore", "Key_Minus"} -> "subtractPhaseWrapSel"
           [] ukey \in {"Key_Plus", "Key_Equal"} -> "addPhaseWrapSel"
           [] ukey \in {"Key_Less", "Key_Period"} -> "subtractPhaseWrapAfter"
           [] ukey \in {"Key_Greater", "Key_Comma"} -> "addPhaseWrapAfter"
           [] OTHER -> "None"

\* psr.add_phase_wrap(mask, phase): the pulse numbers of the masked TOAs move
\* by phase
PsrAddPhaseWrap(pn, mask, phase) ==
    [k \in 1..Len(pn) |-> IF mask[k] THEN pn[k] + phase ELSE pn[k]]

\* psr.selected_toas.get_mjds().max() < psr.all_toas.get_mjds(): the TOAs are
\* in time order, so the later ones are those after the last selected one
Later(sel) ==
    LET lastsel == SetMax({k \in 1..Len(sel) : sel[k]})
    IN [k \in 1..Len(sel) |-> k > lastsel]

\* the four phase-wrap handlers; handleKeyA and handleKeyB are "pass"
RunKeyHandler(action, ws) ==
    CASE action = "subtractPhaseWrapSel" ->
            [ws EXCEPT !.pn = PsrAddPhaseWrap(ws.pn, ws.selected, 0 - 1)]
      [] action = "addPhaseWrapSel" ->
            [ws EXCEPT !.pn = PsrAddPhaseWrap(ws.pn, ws.selected, 1)]
      [] action = "subtractPhaseWrapAfter" /\ AnyOf(ws.selected) ->
            [ws EXCEPT !.pn = PsrAddPhaseWrap(ws.pn, Later(ws.selected), 0 - 1)]
      [] action = "addPhaseWrapAfter" /\ AnyOf(ws.selected) ->
            [ws EXCEPT !.pn = PsrAddPhaseWrap(ws.pn, Later(ws.selected), 1)]
      [] OTHER -> ws

\* the keys pressed on the canvas
CanvasKeys ==
    {<<"+">>, <<"=">>, <<"-">>, <<"_">>, <<">">>, <<".">>, <<"<">>, <<",">>,
     <<"a">>, <<"1">>, <<"c", "t", "r", "l", "+", "=">>}

\* keyPressEvent(event) with event.key a string (from_canvas)
KeyPressEventW(ws, key) ==
    LET k == mpl_key_to_qt_key(key)
        action == key_handlers(k[1], k[2])
    IN [ws |-> IF action # "None" THEN RunKeyHandler(action, ws) ELSE ws,
        action |-> action]

\* a pulsar is loaded and some of its TOAs are selected
InitKeys ==
    /\ InitWidgets
    /\ InitMoreIdle
    /\ InitUnitsIdle
    /\ \E sel \in [1..NToas -> BOOLEAN] :
          wraps = [selected |-> sel, pn |-> [k \in 1..NToas |-> 0]]
    /\ klast = NoKey
    /\ InitPayloadIdle
    /\ InitResidualsIdle

CanvasKey ==
    \E key \in CanvasKeys :
        /\ steps < MaxSteps
        /\ steps' = steps + 1
        /\ wraps' = KeyPressEventW(wraps, key).ws
        /\ klast' = [key |-> key, action |-> KeyPressEventW(wraps, key).action]
        /\ UNCHANGED <<plk_vars, main_vars, units_vars, payload_vars, residuals_vars,
                       more_vars>>

NextKeys == CanvasKey

SpecKeys == InitKeys /\ [][NextKeys]_vars

\* ------------------------------------------------------- PlkView.set_model
\* the models handed to set_model: None, or one of two PulsarModel objects,
\* with or without residuals
SetModelArgs ==
    {NoModel} \cup
    {[NewModel(i) EXCEPT !.loaded = TRUE, !.residuals = r] :
        i \in 1..2, r \in BOOLEAN}

SetModel ==
    \E pm \in SetModelArgs :
        /\ steps < MaxSteps
        /\ steps' = steps + 1
        /\ view' = ViewSetModel(view, pm)
        /\ UNCHANGED <<plk_vars, aux_vars, par_path, tim_path, project, central,
                       save_plot, status, mlast, widgets, notified>>

NextView == SetModel

SpecView == Init /\ [][NextView]_vars

\* --------------------------------------------- PlkView.on_residuals_changed
\* the payloads tried: None, a non-dict, and dicts with each of mjd, res, err
\* absent, of a wrong type, or a list or array of up to MaxLen entries
Fields ==
    {Absent, Field("other", 0)} \cup
    {Field(t, len) : t \in {"list", "ndarray"}, len \in 0..MaxLen}
Payloads ==
    {[kind |-> k, mjd |-> Absent, res |-> Absent, err |-> Absent, n |-> AbsentN,
      rms_us |-> "absent", plottable |-> TRUE] : k \in {"None", "other"}} \cup
    [kind : {"dict"}, mjd : Fields, res : Fields, err : Fields,
     n : {AbsentN, NoneN, NumberN(0), NumberN(MaxLen)},
     rms_us : {"absent", "number", "text"}, plottable : BOOLEAN]

InitPayload ==
    /\ InitWidgets
    /\ InitMoreIdle
    /\ InitUnitsIdle
    /\ InitKeysIdle
    /\ sent \in Payloads
    /\ InitResidualsIdle
    /\ \E t \in Titles : shown = [title |-> t, called |-> FALSE]

CallOnResidualsChanged ==
    /\ ~shown.called
    /\ shown' = [title |-> OnResidualsChanged(sent), called |-> TRUE]
    /\ UNCHANGED <<plk_vars, main_vars, units_vars, keys_vars, residuals_vars,
                   more_vars, sent, steps>>

NextPayload == CallOnResidualsChanged

SpecPayload == InitPayload /\ [][NextPayload]_vars

\* ------------------------------------ PulsarModel.compute_prefit_residuals
\* {}
EmptyDict ==
    [kind |-> "dict", mjd |-> Absent, res |-> Absent, err |-> Absent, n |-> AbsentN,
     rms_us |-> "absent", plottable |-> TRUE]
\* the payload built from ntoas TOAs
ResidualsPayload(ntoas) ==
    [kind |-> "dict", mjd |-> Field("ndarray", ntoas), res |-> Field("ndarray", ntoas),
     err |-> Field("ndarray", ntoas), n |-> NumberN(ntoas), rms_us |-> "number",
     plottable |-> TRUE]
\* how the try block goes: it runs through, Residuals(...) raises, or a later
\* statement (the extraction of the arrays, the RMS) raises
ComputeOutcomes == {"ok", "Residuals", "extract"}

\* compute_prefit_residuals(): the model after the call, the value returned
\* and the payloads emitted
ComputePrefitResiduals_EmitOnFailure(pm, ntoas, outcome) ==
    IF ~IsLoaded(pm) THEN [model |-> pm, ret |-> EmptyDict, emits |-> <<>>]
    ELSE IF outcome = "Residuals"
    THEN [model |-> pm, ret |-> EmptyDict, emits |-> <<EmptyDict>>]
    ELSE IF outcome = "extract"
    THEN [model |-> [pm EXCEPT !.residuals = TRUE], ret |-> EmptyDict,
          emits |-> <<EmptyDict>>]
    ELSE [model |-> [pm EXCEPT !.residuals = TRUE], ret |-> ResidualsPayload(ntoas),
          emits |-> <<ResidualsPayload(ntoas)>>]

ComputePrefitResiduals(pm, ntoas, outcome) ==
    IF ~IsLoaded(pm) THEN [model |-> pm, ret |-> EmptyDict, emits |-> <<>>]
    ELSE IF outcome = "Residuals"
    THEN [model |-> pm, ret |-> EmptyDict, emits |-> <<>>]
    ELSE IF outcome = "extract"
    THEN [model |-> [pm EXCEPT !.residuals = TRUE], ret |-> EmptyDict, emits |-> <<>>]
    ELSE [model |-> [pm EXCEPT !.residuals = TRUE], ret |-> ResidualsPayload(ntoas),
          emits |-> <<ResidualsPayload(ntoas)>>]

\* a fresh PulsarModel, or one that holds a model and up to MaxLen TOAs
InitResiduals ==
    /\ InitWidgets
    /\ InitMoreIdle
    /\ InitUnitsIdle
    /\ InitKeysIdle
    /\ InitPayloadIdle
    /\ \/ pmodel = [pm |-> NewModel(1), ntoas |-> 0]
       \/ \E n \in 0..MaxLen, p \in Paths :
             pmodel = [pm |-> [NewModel(1) EXCEPT !.loaded = TRUE, !.par_path = p,
                                                  !.tim_path = p],
                       ntoas |-> n]
    /\ emitted = <<>>
    /\ returned = NoCall

CallComputePrefitResiduals ==
    \E outcome \in ComputeOutcomes :
        LET r == ComputePrefitResiduals(pmodel.pm, pmodel.ntoas, outcome) IN
        /\ steps < MaxSteps
        /\ steps' = steps + 1
        /\ pmodel' = [pmodel EXCEPT !.pm = r.model]
        /\ emitted' = emitted \o r.emits
        /\ returned' = [called |-> TRUE, value |-> r.ret, outcome |-> outcome]
        /\ UNCHANGED <<plk_vars, main_vars, units_vars, keys_vars, payload_vars,
                       more_vars>>

NextResiduals == CallComputePrefitResiduals

SpecResiduals == InitResiduals /\ [][NextResiduals]_vars

\* ------------------------------------------- loading a pulsar: the provider
\* the fitters and ephemerides a caller can choose (--fitter, --ephem)
Fitters == {"auto", "WLSFitter", "GLSFitter"}
Ephems == {"None", "DE421", "DE440"}
\* an argument the call does not pass
NotPassed == "not passed"

\* PulsarModel.load(par_path, tim_path, fitter, ephem): the provider call it
\* makes, get_model_and_toas(par_path, tim_path)
PulsarModelLoadCall(par, tim, fitter, ephem) ==
    [fn |-> "get_model_and_toas", par |-> par, tim |-> tim,
     fitter |-> NotPassed, ephem |-> NotPassed]
\* ProjectController.open_project(par_path, tim_path, fitter, ephem)
OpenProjectCall(par, tim, fitter, ephem) == PulsarModelLoadCall(par, tim, fitter, ephem)
\* PylkWindow.openPlkPulsar(parfilename, timfilename)
OpenPlkPulsarCall(par, tim) ==
    [fn |-> "Pulsar", par |-> par, tim |-> tim, fitter |-> "WLSFitter",
     ephem |-> "None"]
\* PylkWindow.requestOpenPlk(parfilename, timfilename, on_open=True) with both
\* files given
RequestOpenPlkCall(par, tim) == OpenPlkPulsarCall(par, tim)
\* main(): PylkWindow(parfile, timfile, fitter, ephem), whose __init__ hands
\* the two files on and drops fitter and ephem
PylkMainCall(par, tim, fitter, ephem) == RequestOpenPlkCall(par, tim)

\* the load just made, and the one before it
Remember(load) == <<load>> \o SubSeq(loads, 1, Min(Len(loads), 1))

LoadAction(via, par, tim, fitter, ephem, call) ==
    /\ steps < MaxSteps
    /\ steps' = steps + 1
    /\ loads' = Remember([via |-> via, par |-> par, tim |-> tim, fitter |-> fitter,
                          ephem |-> ephem, call |-> call])
    /\ UNCHANGED <<plk_vars, main_vars, units_vars, keys_vars, payload_vars,
                   residuals_vars, session_vars, render_vars, drag_vars, ctrl_vars,
                   mouse_vars>>

CliLoad ==
    \E par \in Paths, fitter \in Fitters, ephem \in Ephems :
        LoadAction("cli", par, par, fitter, ephem, PylkMainCall(par, par, fitter, ephem))
ControllerLoad ==
    \E par \in Paths, fitter \in Fitters, ephem \in Ephems :
        LoadAction("open_project", par, par, fitter, ephem,
                   OpenProjectCall(par, par, fitter, ephem))
ModelLoadAction ==
    \E par \in Paths, fitter \in Fitters, ephem \in Ephems :
        LoadAction("load", par, par, fitter, ephem,
                   PulsarModelLoadCall(par, par, fitter, ephem))

NextLoad == CliLoad \/ ControllerLoad \/ ModelLoadAction

SpecLoad == Init /\ [][NextLoad]_vars

\* ----------------------------------------------- PlkWidget: the session
\* Idle: no pulsar; Viewing: the event loop waits for input; FitPending,
\* Reverting, Reset: the handler of that request is running; Closed: the
\* window was closed; Aborted: PyQt5 ended the process
Pending == {"FitPending", "Reverting", "Reset"}

\* how control comes back from a slot: a slot that returns leaves the event
\* loop running; for an exception that leaves a slot PyQt5 calls
\* sys.excepthook, and with the default hook (none is installed) it prints the
\* traceback and, from version 5.5 on, ends the process with qFatal()
HandlerEnd(raised) == IF raised THEN {"Viewing", "Aborted"} ELSE {"Viewing"}

\* the rest of the model stays as it is
SessionFrame == UNCHANGED <<main_vars, units_vars, keys_vars, payload_vars,
                            residuals_vars, load_vars, render_vars, drag_vars,
                            ctrl_vars, mouse_vars>>

SessionLoad ==
    \E f \in Files :
        /\ session \in {"Idle", "Viewing"}
        /\ steps < MaxSteps
        /\ steps' = steps + 1
        /\ Apply("setPulsar", f, SetPulsarW(Cur, f))
        /\ session' \in HandlerEnd(SetPulsarW(Cur, f).out.raised)
        /\ SessionFrame
SessionClick ==
    \E pt \in ClickPoints :
        LET w == StationaryClickW(Cur, LeftButton, pt[1], pt[2], "none") IN
        /\ session = "Viewing"
        /\ steps < MaxSteps
        /\ steps' = steps + 1
        /\ Apply("left", CoordToPoint(Cur, pt[1], pt[2]).ind, w)
        /\ session' \in HandlerEnd(w.out.raised)
        /\ SessionFrame
\* the button or key event reaches the handler
Request(to) ==
    /\ session = "Viewing"
    /\ steps < MaxSteps
    /\ steps' = steps + 1
    /\ session' = to
    /\ UNCHANGED plk_vars
    /\ SessionFrame
RequestFit == Request("FitPending")
RequestRevert == Request("Reverting")
RequestReset == Request("Reset")
\* the handler runs to its end
Complete(from, op, w) ==
    /\ session = from
    /\ Apply(op, 0, w)
    /\ session' \in HandlerEnd(w.out.raised)
    /\ UNCHANGED steps
    /\ SessionFrame
CompleteFit == Complete("FitPending", "fit", FitW(Cur))
CompleteRevert == Complete("Reverting", "revert", RevertW(Cur))
CompleteReset == Complete("Reset", "reset", ResetW(Cur))
CloseWindow ==
    /\ session \in {"Idle", "Viewing"}
    /\ session' = "Closed"
    /\ UNCHANGED <<plk_vars, steps>>
    /\ SessionFrame

NextSession ==
    \/ SessionLoad
    \/ SessionClick
    \/ RequestFit
    \/ RequestRevert
    \/ RequestReset
    \/ CompleteFit
    \/ CompleteRevert
    \/ CompleteReset
    \/ CloseWindow

\* Qt runs a slot on the GUI thread as soon as its event is delivered, so a
\* handler that has started runs to its end
SpecSession ==
    /\ Init
    /\ [][NextSession]_vars
    /\ WF_vars(CompleteFit)
    /\ WF_vars(CompleteRevert)
    /\ WF_vars(CompleteReset)

\* ------------------------------------------- PlkWidget: the y-axis unit
\* the pre-fit residuals a TOA can have, in microseconds
ResidValues == {0, 150, 5000, 300000}
\* the y-axis choices: two residual quantities and one that is none
YChoices == {"pre-fit", "post-fit", "mjd"}
\* "fit" in self.yid
HasFit(yid) == yid \in {"pre-fit", "post-fit"}
SeqMin(q) == SetMin({q[k] : k \in 1..Len(q)})
SeqMax(q) == SetMax({q[k] : k \in 1..Len(q)})
\* what determine_yaxis_units gives for the residuals q
UnitFor(q) ==
    DetermineYaxisUnits(Quantity(SeqMin(q), "us"), Quantity(SeqMax(q), "us")).miny.unit

\* updatePlot: y_unit is set when a residual quantity is on the y axis and the
\* widget has no y_unit attribute yet
UpdatePlotUnit(r) ==
    IF HasFit(r.yid) /\ r.y_unit = "unset"
    THEN [r EXCEPT !.y_unit = UnitFor(r.resids)]
    ELSE r

RenderStep(r) ==
    /\ steps < MaxSteps
    /\ steps' = steps + 1
    /\ render' = UpdatePlotUnit(r)
    /\ UNCHANGED <<plk_vars, main_vars, units_vars, keys_vars, payload_vars,
                   residuals_vars, load_vars, session_vars, drag_vars, ctrl_vars,
                   mouse_vars>>

\* setPulsar: setChoice() puts pre-fit on the y axis, updatePlot draws
RenderSetPulsar ==
    \E res \in [1..NToas -> ResidValues] :
        RenderStep([render EXCEPT !.resids = res, !.yid = "pre-fit"])
\* the y radio buttons: updateYPlot, updateChoice, updatePlot
RenderChooseY ==
    \E yid \in YChoices :
        /\ render.resids # <<>>
        /\ RenderStep([render EXCEPT !.yid = yid])
\* a TOA is deleted (some are left) and the plot is drawn again
RenderDelete ==
    \E k \in 1..Len(render.resids) :
        /\ Len(render.resids) > 1
        /\ RenderStep([render EXCEPT !.resids =
               SubSeq(render.resids, 1, k - 1)
                   \o SubSeq(render.resids, k + 1, Len(render.resids))])

NextRender == RenderSetPulsar \/ RenderChooseY \/ RenderDelete

SpecRender == Init /\ [][NextRender]_vars

\* ------------------------------------------- PlkWidget: click-and-drag
\* a run of handlers that ends with one click-and-drag: the pulsar is set,
\* TOAs are selected, deleted or stashed, then the mouse is dragged
DragBefore ==
    /\ ~dragged.done
    /\ \/ SetPulsar
       \/ Update
       \/ LeftClick
       \/ \E pt \in ClickPoints :
             Do("right", CoordToPoint(Cur, pt[1], pt[2]).ind, "none",
                StationaryClickW(Cur, RightButton, pt[1], pt[2], "none"))
       \/ KeyT
\* where a drag can start and end: between the TOAs or exactly on one
DragCorners == DragPoints \cup {pt \in ClickPoints : \E i \in 1..NToas : pt[1] = XOf(i)}
\* canvasReleaseEvent after a press at p and a motion: clickAndDrag(event)
\* with the release at r, inside the axes or not
DragAct ==
    \E p \in DragCorners, r \in DragCorners, inaxes \in BOOLEAN :
        /\ ~dragged.done
        /\ psr # NoPsr
        /\ steps < MaxSteps
        /\ steps' = steps + 1
        /\ Apply("drag", 0, ClickAndDragW(Cur, inaxes, p[1], p[2], r[1], r[2]))
        /\ dragged' = [done |-> TRUE, p |-> p, r |-> r, inaxes |-> inaxes,
                       selected |-> selected, jumped |-> jumped,
                       xvals |-> plot.xvals]
        /\ UNCHANGED <<main_vars, units_vars, keys_vars, payload_vars,
                       residuals_vars, load_vars, session_vars, render_vars,
                       ctrl_vars, mouse_vars>>

NextDrag == DragBefore \/ DragAct

SpecDrag == Init /\ [][NextDrag]_vars

\* ---------------------------------------------- ProjectController alone
\* close_project(): `if self._model:` is true for every PulsarModel object,
\* loaded or not
ControllerClose(c) ==
    IF c.model.id # 0
    THEN [c EXCEPT !.model = NoModel, !.signals = Append(@, "projectClosed")]
    ELSE c
\* open_project(par_path, tim_path): the exception of a failing load leaves
\* the method before projectLoaded is emitted
ControllerOpen(c, par, tim, outcome) ==
    LET c1 == ControllerClose(c)
        r == ModelLoad(NewModel(1), par, tim, outcome)
    IN IF r.raised THEN [c1 EXCEPT !.model = r.model, !.raised = TRUE]
       ELSE [c1 EXCEPT !.model = r.model, !.signals = Append(@, "projectLoaded")]
\* is_project_open
IsProjectOpen(c) == c.model.id # 0 /\ IsLoaded(c.model)

CtrlStep(c) ==
    /\ steps < MaxSteps
    /\ steps' = steps + 1
    /\ ctrl' = c
    /\ UNCHANGED <<plk_vars, main_vars, units_vars, keys_vars, payload_vars,
                   residuals_vars, load_vars, session_vars, render_vars, drag_vars,
                   mouse_vars>>

CtrlOpen ==
    \E par \in Paths, tim \in Paths, outcome \in LoadOutcomes :
        CtrlStep(ControllerOpen([ctrl EXCEPT !.raised = FALSE], par, tim, outcome))
CtrlClose == CtrlStep(ControllerClose([ctrl EXCEPT !.raised = FALSE]))

NextCtrl == CtrlOpen \/ CtrlClose

SpecCtrl == Init /\ [][NextCtrl]_vars

\* ------------------------------------- PlkWidget: press, motion, release
\* where a canvas event lands: inside the axes at one of the drag corners, or
\* outside the axes (xdata and ydata None, here <<0, 0>>)
MouseEvents ==
    {[inaxes |-> TRUE, at |-> pt] : pt \in DragCorners}
      \cup {[inaxes |-> FALSE, at |-> <<0, 0>>]}

\* canvasClickEvent(event)
CanvasClickEvent(ms, event) ==
    IF event.inaxes
    THEN [ms EXCEPT !.press = TRUE, !.at = event.at, !.rect = TRUE]
    ELSE ms
\* canvasMotionEvent(event)
CanvasMotionEvent(ms, event) ==
    IF event.inaxes /\ ms.press THEN [ms EXCEPT !.move = TRUE] ELSE ms
\* canvasReleaseEvent(event): the widget and the mouse state it leaves, the
\* handler it called and whether an exception left it. self.rect exists only
\* once a press inside the axes has created it.
CanvasReleaseEvent(w, ms, event, button) ==
    LET idle == [ms EXCEPT !.press = FALSE, !.move = FALSE] IN
    IF ~ms.rect
    THEN [w |-> Raise(w), ms |-> ms, invoked |-> "none", raised |-> TRUE]
    ELSE IF ms.press /\ ~ms.move
    THEN LET w1 == IF event.inaxes
                   THEN StationaryClickW(w, button, event.at[1], event.at[2], "none")
                   ELSE w
         IN [w |-> w1, ms |-> IF w1.out.raised THEN ms ELSE idle,
             invoked |-> "stationaryClick", raised |-> w1.out.raised]
    ELSE IF ms.press /\ ms.move
    THEN LET w1 == ClickAndDragW(w, event.inaxes, ms.at[1], ms.at[2],
                                 event.at[1], event.at[2])
         IN [w |-> w1, ms |-> IF w1.out.raised THEN ms ELSE idle,
             invoked |-> "clickAndDrag", raised |-> w1.out.raised]
    ELSE [w |-> w, ms |-> idle, invoked |-> "none", raised |-> FALSE]

\* a press or a motion: the widget's other fields stay
MouseStep(ev, ms) ==
    /\ steps < MaxSteps
    /\ steps' = steps + 1
    /\ mouse' = [ms EXCEPT !.ev = ev, !.invoked = "none", !.raised = FALSE]
    /\ UNCHANGED <<plk_vars, main_vars, units_vars, keys_vars, payload_vars,
                   residuals_vars, load_vars, session_vars, render_vars, drag_vars,
                   ctrl_vars>>

\* had_press: a press inside the axes came since the last release; had_move:
\* a motion inside the axes came after that press
Since(ms) ==
    IF ms.ev = "release" THEN [ms EXCEPT !.had_press = FALSE, !.had_move = FALSE]
    ELSE ms
MousePress ==
    \E event \in MouseEvents :
        MouseStep("press",
                  [CanvasClickEvent(mouse, event) EXCEPT
                      !.had_press = Since(mouse).had_press \/ event.inaxes,
                      !.had_move = Since(mouse).had_move])
MouseMotion ==
    \E event \in MouseEvents :
        MouseStep("motion",
                  [CanvasMotionEvent(mouse, event) EXCEPT
                      !.had_press = Since(mouse).had_press,
                      !.had_move = Since(mouse).had_move
                                     \/ (event.inaxes /\ Since(mouse).had_press)])
MouseRelease ==
    \E event \in MouseEvents, button \in {LeftButton, RightButton} :
        LET r == CanvasReleaseEvent(Cur, mouse, event, button) IN
        /\ steps < MaxSteps
        /\ steps' = steps + 1
        /\ Apply("release", 0, r.w)
        /\ mouse' = [r.ms EXCEPT !.ev = "release", !.invoked = r.invoked,
                                 !.raised = r.raised,
                                 !.had_press = Since(mouse).had_press,
                                 !.had_move = Since(mouse).had_move]
        /\ UNCHANGED <<main_vars, units_vars, keys_vars, payload_vars,
                       residuals_vars, load_vars, session_vars, render_vars,
                       drag_vars, ctrl_vars>>

NextMouse == SetPulsar \/ MousePress \/ MouseMotion \/ MouseRelease

SpecMouse == Init /\ [][NextMouse]_vars

\* ------------------------------------------------------------------ claims
\* seq without its entry at position i
RemoveAt(s, i) == SubSeq(s, 1, i - 1) \o SubSeq(s, i + 1, Len(s))

\* C1: two consecutive left clicks that resolve to the same TOA leave the
\* selected mask as it was before the first click, and after the first click
\* the mask differs from it at that TOA only.
C1_DoubleLeftClick ==
    [][(/\ last.op = "left" /\ last.ind > 0
        /\ last'.op = "left" /\ last'.ind = last.ind)
       => /\ selected' = last.sel0
          /\ Len(selected) = Len(last.sel0)
          /\ \A k \in 1..Len(selected) :
                 (selected[k] # last.sel0[k]) <=> (k = last.ind)]_vars

C1_Witness ==
    /\ last.op = "left" /\ last.prev = "left"
    /\ last.ind > 0 /\ last.prev_ind = last.ind
    /\ AnyOf(selected)

\* C2 (as claimed): a right click that resolves to a TOA and whose provider
\* calls succeed removes exactly that entry from the TOA set, and the selected
\* and the jumped mask are the old masks without that entry; deleting an index
\* that is not in the set changes neither the TOA set nor the selected mask.
C2_RightClickDeletesOne ==
    [][(last'.op = "right" /\ last'.ind > 0 /\ ~last'.out.raised)
       => /\ psr'.all_toas = RemoveAt(psr.all_toas, last'.ind)
          /\ selected' = RemoveAt(selected, last'.ind)
          /\ jumped' = RemoveAt(jumped, last'.ind)
          /\ \A d \in (1..NToas) \ IndexSet(psr'.all_toas) :
                LET r == PsrDeleteTOAs(psr', {d}, selected')
                IN r.psr.all_toas = psr'.all_toas /\ r.selected = selected']_vars

\* C3 (as claimed): a revert issued right after a fit that was requested
\* with selection mask S and model parameters P pops the snapshot that the fit
\* pushed and leaves selection mask S and model parameters P.
C3_FitThenRevert ==
    [][(last.op = "fit" /\ last'.op = "revert" /\ psr.name # 0)
       => /\ Len(state_stack') = Len(state_stack) - 1
          /\ selected' = last.sel0
          /\ psr'.params = last.par0]_vars

\* C4: once setPulsar has run, the state stack is never empty and its bottom
\* entry is base_state, whatever sequence of fit, revert, reset and update
\* (and of the other handlers) follows.
C4_BaseStateAtBottom ==
    base_state.set => (Len(state_stack) >= 1 /\ state_stack[1] = base_state)

C4_Witness ==
    /\ base_state.set
    /\ last.op \in {"revert", "reset", "update"} /\ last.prev = "fit"
    /\ state_stack = <<base_state>>

\* C5: revert on a loaded pulsar that has not been fitted, with only the base
\* entry on the stack, logs a warning, does not raise, and changes neither the
\* stack nor the model nor the masks.
C5_RevertUnfitted ==
    [][(/\ last'.op = "revert" /\ psr.name # 0 /\ ~psr.fitted
        /\ state_stack = <<base_state>>)
       => /\ last'.out.warned /\ ~last'.out.raised
          /\ UNCHANGED <<psr, selected, jumped, state_stack, base_state, plot>>]_vars

C5_Witness ==
    /\ last.op = "revert" /\ last.out.warned
    /\ psr.name # 0 /\ ~psr.fitted /\ state_stack = <<base_state>>
    /\ AnyOf(selected)

\* C6: after every handler, the selected mask and the jumped mask are as long
\* as the provider's current TOA set.
C6_MaskLengths ==
    /\ Len(selected) = Len(psr.all_toas)
    /\ Len(jumped) = Len(psr.all_toas)

C6_Witness ==
    /\ psr.name # 0 /\ last.op \in {"right", "d", "t"} /\ ~last.out.raised
    /\ Len(psr.all_toas) < NToas
    /\ Len(selected) = Len(psr.all_toas)

\* the TOAs a fit would use are all jumped (check_jump_invalid)
FitAllJumped ==
    /\ psr.jumps # {}
    /\ \A k \in 1..Len(selected) :
           (selected[k] \/ ~AnyOf(selected)) => UpdateAllJumped(psr)[k]

\* C7 (as claimed): every fit request on a loaded pulsar (whose TOAs to fit
\* are not all jumped) pushes one snapshot holding the current pulsar and the
\* current selection mask and calls the provider's fit: the stack grows by
\* exactly one entry, the first fit included.
C7_FitPushesSnapshot ==
    [][(last'.op = "fit" /\ psr.name # 0 /\ ~FitAllJumped)
       => /\ state_stack' =
                 Append(state_stack, [set |-> TRUE, psr |-> psr, selected |-> selected])
          /\ last'.out.fit_called]_vars

\* C8 (as claimed): an exception raised by a provider call does not leave the
\* handler that made the call and the plot is redrawn afterwards; no handler
\* that changes the pulsar or a mask ends without a redraw.
C8_ProviderFaultsCaught ==
    [][/\ last'.out.faulted => (~last'.out.raised /\ last'.out.redrawn)
       /\ (<<psr, selected, jumped>>' # <<psr, selected, jumped>>)
              => last'.out.redrawn]_vars

\* C9 (as claimed): a fit request while every TOA that would be fitted is
\* jumped logs a warning and returns: the provider's fit is not called, and
\* the pulsar, the masks and the history stack stay as they are.
C9_AllJumpedFitAborts ==
    [][(last'.op = "fit" /\ psr.name # 0 /\ FitAllJumped)
       => /\ last'.out.warned /\ ~last'.out.raised /\ ~last'.out.fit_called
          /\ UNCHANGED <<psr, selected, jumped, state_stack>>]_vars

\* the controller's project: its model while that is loaded
ProjectOf(pm) == IF IsLoaded(pm) THEN pm ELSE NoModel
\* a model that is not loaded and yet holds paths or residuals
HalfLoaded(pm) ==
    ~pm.loaded /\ (pm.par_path # 0 \/ pm.tim_path # 0 \/ pm.residuals)

\* C10 (as claimed): when the load that a file choice starts fails, the error
\* dialog is shown and the window is as before the attempt: the controller's
\* project is the one it had (or none), the central widget and the save
\* action are unchanged, and the controller holds no half-loaded model.
C10_FailedLoadKeepsState ==
    [][(mlast'.opened /\ mlast'.critical)
       => /\ ~mlast'.raised
          /\ ProjectOf(project') = ProjectOf(project)
          /\ central' = central
          /\ save_plot' = save_plot
          /\ ~HalfLoaded(project')]_vars

\* C11: whatever came before it, a reset on a loaded pulsar leaves the widget
\* with the pulsar as base_state captured it at load time, an all-false
\* selection mask and the history stack <<base_state>>, and base_state is
\* still the snapshot that setPulsar took.
C11_ResetRestoresBase ==
    [][(last'.op = "reset" /\ psr.name # 0)
       => /\ ~last'.out.raised
          /\ psr' = base_state.psr
          /\ psr' = PsrLoad(psr'.name)
          /\ selected' = Zeros(Len(psr'.all_toas))
          /\ state_stack' = <<base_state>>
          /\ base_state' = base_state
          /\ base_state' = [set |-> TRUE, psr |-> PsrLoad(base_state.psr.name),
                            selected |-> Zeros(NToas)]]_vars

C11_Witness ==
    /\ last.op = "reset" /\ last.prev = "left" /\ steps = MaxSteps
    /\ psr = base_state.psr /\ state_stack = <<base_state>>
    /\ ~AnyOf(selected)

\* the click positions the statements about coordToPoint are checked at: on
\* and around every TOA position
MaxOff == 3
NearPoints ==
    {<<XOf(i) + dx, YOf(i) + dy>> :
        i \in 1..NToas, dx \in (0 - MaxOff)..MaxOff, dy \in {0 - MaxOff, 0, MaxOff}}
\* the plotted point k lies at pt
PlottedAt(k, pt) == XOf(plot.xvals[k]) = pt[1] /\ YOf(plot.xvals[k]) = pt[2]
\* W^2 H^2 times the squared normalised distance from pt to plotted point k
NormSq(k, pt) == SqDist(plot.axes, plot.xvals[k], pt[1], pt[2])
\* W^2 H^2, for the current axis ranges W and H
AxesSq ==
    (plot.axes[2] - plot.axes[1]) * (plot.axes[2] - plot.axes[1])
      * (plot.axes[4] - plot.axes[3]) * (plot.axes[4] - plot.axes[3])

\* C12 (amended): with points plotted, coordToPoint returns either no index
\* or the index of a plotted point nearest to the click under the Euclidean
\* distance normalised by the axis ranges; a click exactly on a plotted point
\* returns that point's index; and it returns no index exactly when the
\* SQUARE of the normalised distance to every point exceeds 0.0005.
C12_CoordToPoint ==
    (psr.name # 0 /\ Len(plot.xvals) > 0) =>
        \A pt \in NearPoints :
            LET r == CoordToPoint(Cur, pt[1], pt[2])
                K == 1..Len(plot.xvals)
            IN /\ ~r.raised
               /\ r.ind # 0 => (r.ind \in K /\ \A k \in K : NormSq(r.ind, pt) <= NormSq(k, pt))
               /\ \A k \in K : PlottedAt(k, pt) => r.ind = k
               /\ r.ind = 0 <=> \A k \in K : NormSq(k, pt) > AxesSq \div ClickDistInv

\* a click beside a point was resolved to it, and in the same view a click
\* further off resolves to nothing
C12_Witness ==
    /\ last.op = "left" /\ last.ind > 0 /\ Len(plot.xvals) > 0
    /\ \E pt \in NearPoints :
           /\ CoordToPoint(Cur, pt[1], pt[2]).ind # 0
           /\ \A k \in 1..Len(plot.xvals) : ~PlottedAt(k, pt)
    /\ \E pt \in NearPoints : CoordToPoint(Cur, pt[1], pt[2]).ind = 0

\* C12 (as claimed): a click whose normalised distance (not its square) to
\* every plotted point exceeds 0.0005 returns no index.
C12_PlainDistanceThreshold ==
    (psr.name # 0 /\ Len(plot.xvals) > 0) =>
        \A pt \in NearPoints :
            (\A k \in 1..Len(plot.xvals) :
                 NormSq(k, pt) > AxesSq \div (ClickDistInv * ClickDistInv))
            => CoordToPoint(Cur, pt[1], pt[2]).ind = 0

\* C13: determine_yaxis_units returns both bounds in seconds when the spread
\* maxy - miny exceeds 0.2 s, in milliseconds when it exceeds 0.2 ms and is at
\* most 0.2 s, in microseconds when it is at most 0.2 ms (so a spread of
\* exactly 0.2 s gives milliseconds and one of exactly 0.2 ms microseconds);
\* both bounds carry the same unit and keep their amounts.
SpreadUs == ylim.maxy.us - ylim.miny.us
C13_YaxisUnits ==
    ylim_out # NoCall =>
        /\ ylim_out.miny.unit = ylim_out.maxy.unit
        /\ ylim_out.miny.us = ylim.miny.us /\ ylim_out.maxy.us = ylim.maxy.us
        /\ ylim_out.miny.unit = "s" <=> SpreadUs > SecondsSpread
        /\ ylim_out.miny.unit = "ms" <=>
              (SpreadUs > MillisSpread /\ SpreadUs <= SecondsSpread)
        /\ ylim_out.miny.unit = "us" <=> SpreadUs <= MillisSpread

\* a spread of exactly 0.2 s, given in microseconds, came back in milliseconds
C13_Witness ==
    /\ ylim_out # NoCall
    /\ SpreadUs = SecondsSpread
    /\ ylim.miny.unit = "us"
    /\ ylim_out.maxy.unit = "ms"

\* C14: updatePlot(keepAxes=True) leaves the x and y axis limits equal to the
\* limits in effect immediately before the call, for every handler that
\* redraws with keepAxes=True.
KeepAxesHandlers == {"update", "left", "right", "drag", "d", "u", "v"}
C14_KeepAxes ==
    [][(/\ last'.op \in KeepAxesHandlers
        /\ psr.name # 0
        /\ last'.out.redrawn)
       => plot'.axes = plot.axes]_vars

\* C15: with N TOAs loaded and nothing selected, drag-selecting a rectangle
\* that contains exactly k plotted TOAs and then pressing 'd' leaves N - k
\* TOAs and an all-false selection mask of length N - k.
Count(mask) == Cardinality({k \in 1..Len(mask) : mask[k]})
InRectangle(p, r) ==
    [k \in 1..Len(plot.xvals) |->
        /\ Min(p[1], r[1]) < XOf(plot.xvals[k]) /\ XOf(plot.xvals[k]) < Max(p[1], r[1])
        /\ Min(p[2], r[2]) < YOf(plot.xvals[k]) /\ YOf(plot.xvals[k]) < Max(p[2], r[2])]
C15_DragThenDelete ==
    (psr.name # 0 /\ ~AnyOf(selected) /\ Len(plot.xvals) = Len(psr.all_toas))
    => \A p \in DragPoints, r \in DragPoints :
          LET N == Len(psr.all_toas)
              k == Count(InRectangle(p, r))
              w1 == ClickAndDragW(Cur, TRUE, p[1], p[2], r[1], r[2])
          IN /\ ~w1.out.raised
             /\ w1.selected = InRectangle(p, r)
             \* whether or not the logger accepts updateJumped's message
             /\ \A fault \in {"none", "log_error"} :
                   LET w2 == HandleKeyDW([w1 EXCEPT !.out = OutOk], fault)
                   IN /\ ~w2.out.raised
                      /\ Len(w2.psr.all_toas) = N - k
                      /\ w2.selected = Zeros(N - k)

\* C16: for key events from the plot canvas, '+' or '=' increases the pulse
\* number of the selected TOAs by one, '-' or '_' decreases it by one, '>' or
\* '.' increases the pulse number of the TOAs later than the selection, '<'
\* or ',' decreases it, and a key that is not in the handler table triggers
\* no action.
Moved(mask, phase) ==
    [k \in 1..Len(wraps.pn) |-> IF mask[k] THEN wraps.pn[k] + phase ELSE wraps.pn[k]]
LaterThanSelection ==
    [k \in 1..Len(wraps.selected) |->
        /\ AnyOf(wraps.selected)
        /\ \A j \in 1..Len(wraps.selected) : wraps.selected[j] => j < k]
C16_PhaseWrapKeys ==
    [][klast' # klast =>
        /\ klast'.key \in {<<"+">>, <<"=">>} => wraps'.pn = Moved(wraps.selected, 1)
        /\ klast'.key \in {<<"-">>, <<"_">>} => wraps'.pn = Moved(wraps.selected, 0 - 1)
        /\ klast'.key \in {<<">">>, <<".">>} => wraps'.pn = Moved(LaterThanSelection, 1)
        /\ klast'.key \in {<<"<">>, <<",">>} => wraps'.pn = Moved(LaterThanSelection, 0 - 1)
        /\ klast'.action = "None" => wraps' = wraps
        /\ wraps'.selected = wraps.selected]_vars

\* C17: in MainWindow, initially and after any sequence of projectLoaded and
\* projectClosed notifications, the central widget is the PlkView and Save
\* Plot is enabled exactly when the most recent notification was
\* projectLoaded; otherwise the central widget is the placeholder and Save
\* Plot is disabled.
C17_CentralFollowsNotification ==
    IF notified = "loaded"
    THEN central = "plk_view" /\ save_plot
    ELSE central = "placeholder" /\ ~save_plot

\* C18: after any sequence of PlkView.set_model calls, on_residuals_changed is
\* connected to the residualsChanged signal of the most recently set model
\* only; each call disconnects the model it replaces exactly once and connects
\* the new model exactly once.
C18_ConnectedToCurrentOnly ==
    [][view' # view \/ steps' # steps =>
        /\ \A i \in ModelIds :
              view'.conns[i] = IF i = view'.model THEN 1 ELSE 0
        /\ \A i \in ModelIds :
              /\ view'.disconnects[i] - view.disconnects[i] =
                    IF i = view.model THEN 1 ELSE 0
              /\ view'.connects[i] - view.connects[i] =
                    IF i = view'.model THEN 1 ELSE 0]_vars

\* model 1 was set, replaced by model 2, and set again
C18_Witness ==
    /\ view.model = 1 /\ view.conns[1] = 1 /\ view.conns[2] = 0
    /\ view.connects[1] = 2 /\ view.disconnects[1] = 1
    /\ view.connects[2] = 1 /\ view.disconnects[2] = 1

\* C19 (as claimed): on_residuals_changed draws the residual plot exactly when
\* the payload is a non-empty dict whose mjd, res and err are lists or arrays
\* of the same non-zero length and whose n is non-zero; for every other
\* payload the plot is reset to "No data loaded".
WellFormed ==
    /\ sent.kind = "dict"
    /\ \A f \in {sent.mjd, sent.res, sent.err} :
          f.t \in {"list", "ndarray"} /\ f.len > 0 /\ f.len = sent.mjd.len
    /\ sent.n \notin {AbsentN, NumberN(0)}
Drawable == sent.plottable /\ sent.rms_us \in {"absent", "number"}
C20_ComputePrefitResiduals ==
    [][steps' # steps =>
        IF ~IsLoaded(pmodel.pm) \/ returned'.outcome # "ok"
        THEN returned'.value = EmptyDict /\ emitted' = emitted
        ELSE /\ emitted' = Append(emitted, returned'.value)
             /\ returned'.value.n = NumberN(returned'.value.mjd.len)
             /\ returned'.value.mjd.len = pmodel.ntoas]_vars

\* a failed and a successful computation on a model with MaxLen TOAs
C20_Witness ==
    /\ returned # NoCall /\ returned.outcome = "ok"
    /\ Len(emitted) = 1 /\ steps = 2
    /\ emitted[1] = returned.value /\ returned.value.n = NumberN(MaxLen)

\* C21: the fitter and the ephemeris the caller chose are the ones the
\* provider is called with, so two loads through the same entry point that
\* differ only in fitter or ephemeris make different provider calls
C21_ProviderGetsFitterAndEphem ==
    /\ \A i \in 1..Len(loads) :
          /\ loads[i].call.fitter = loads[i].fitter
          /\ loads[i].call.ephem = loads[i].ephem
    /\ (/\ Len(loads) = 2
        /\ loads[1].via = loads[2].via
        /\ loads[1].par = loads[2].par
        /\ loads[1].tim = loads[2].tim
        /\ <<loads[1].fitter, loads[1].ephem>> # <<loads[2].fitter, loads[2].ephem>>)
       => loads[1].call # loads[2].call

\* C22: a loaded session is in Viewing when no handler runs, and a session
\* that is in FitPending, Reverting or Reset gets back to Viewing, whether
\* the request succeeds or fails
C22_BackToViewing ==
    /\ [](psr # NoPsr => session \in {"Viewing", "Closed"} \cup Pending)
    /\ (session \in Pending) ~> (session = "Viewing")

\* C23: with a residual quantity on the y axis, the unit in use after a render
\* is the one determine_yaxis_units gives for the residuals plotted in that
\* render
C23_UnitFollowsData ==
    (render.resids # <<>> /\ HasFit(render.yid))
        => render.y_unit = UnitFor(render.resids)

\* C24: a right click on a TOA that belongs to a jump group calls add_jump on
\* the mask holding only that TOA, then deletes the TOA, and leaves the jumped
\* status of every other TOA as it was (provider exceptions aside)
C24_RightClickUnjumpsThenDeletes ==
    [][(/\ last'.op = "right"
        /\ last'.ind \in 1..Len(psr.all_toas)
        /\ Len(selected) = Len(psr.all_toas)
        /\ psr.all_toas[last'.ind].jump # 0
        /\ ~last'.out.faulted)
       => /\ jumped[last'.ind]
          /\ ~last'.out.raised
          /\ psr.all_toas[last'.ind].index \in psr'.deleted
          /\ jumped' = RemoveAt(jumped, last'.ind)]_vars

\* C25: a click-and-drag released inside the axes adds to the selection
\* exactly the TOAs plotted strictly inside the rectangle spanned by press and
\* release, in whatever direction the mouse went, and keeps the TOAs selected
\* before; a release outside the axes changes no mask
StrictlyInside(xs, p, r) ==
    [k \in 1..Len(xs) |->
        /\ Min(p[1], r[1]) < XOf(xs[k]) /\ XOf(xs[k]) < Max(p[1], r[1])
        /\ Min(p[2], r[2]) < YOf(xs[k]) /\ YOf(xs[k]) < Max(p[2], r[2])]
C25_DragSelectsRectangle ==
    dragged.done =>
        /\ ~last.out.raised
        /\ jumped = dragged.jumped
        /\ IF dragged.inaxes
           THEN selected = OrMask(dragged.selected,
                                  StrictlyInside(dragged.xvals, dragged.p, dragged.r))
           ELSE selected = dragged.selected

\* a drag from the upper right to the lower left added a TOA to a selection
\* that held another one
C25_Witness ==
    /\ dragged.done
    /\ dragged.inaxes
    /\ dragged.p[1] > dragged.r[1] /\ dragged.p[2] > dragged.r[2]
    /\ AnyOf(dragged.selected)
    /\ selected # dragged.selected
    /\ ~AllOf(selected)

\* C26: 't' with TOAs selected takes exactly the selected TOAs out of the
\* visible TOA set and clears the selection; 't' with nothing selected and a
\* stash puts back the stashed TOAs, leaves out those deleted meanwhile, and
\* empties the stash; 't' with nothing selected and no stash changes nothing
C26_KeyT ==
    [][(last'.op = "t" /\ psr # NoPsr)
       => /\ ~last'.out.raised
          /\ AnyOf(selected) =>
                /\ psr'.all_toas = KeepSeq(psr.all_toas, NotMask(selected))
                /\ ~AnyOf(selected')
                /\ Len(selected') = Len(psr'.all_toas)
          /\ (~AnyOf(selected) /\ psr.stashed.some) =>
                /\ IndexSet(psr'.all_toas) = IndexSet(psr.stashed.table) \ psr.deleted
                /\ psr'.stashed = NoStash
                /\ ~AnyOf(selected')
          /\ (~AnyOf(selected) /\ ~psr.stashed.some) =>
                /\ psr' = psr
                /\ selected' = selected
                /\ jumped' = jumped]_vars

\* C27: after setPulsar, the first or a later one, base_state and every entry
\* of the history stack hold the pulsar just set, and a reset restores the
\* load-time state of the pulsar the widget shows, never that of an earlier one
C27_SecondSetPulsar ==
    [][/\ last'.op = "setPulsar" =>
            /\ base_state'.psr = PsrLoad(last'.ind)
            /\ \A k \in 1..Len(state_stack') : state_stack'[k].psr.name = last'.ind
       /\ (last'.op = "reset" /\ psr.name # 0) => psr' = PsrLoad(psr.name)]_vars

\* C28: the signals a ProjectController has emitted alternate, projectLoaded
\* first and projectClosed after it, and is_project_open is true exactly when
\* the last signal is projectLoaded
C28_SignalsAlternate ==
    /\ \A i \in 1..Len(ctrl.signals) :
          ctrl.signals[i] = IF i % 2 = 1 THEN "projectLoaded" ELSE "projectClosed"
    /\ IsProjectOpen(ctrl) <=>
          (ctrl.signals # <<>> /\ ctrl.signals[Len(ctrl.signals)] = "projectLoaded")

\* C29: every release leaves press and move false; a release that follows a
\* press inside the axes calls clickAndDrag when a motion inside the axes came
\* in between and stationaryClick when none did; a release that follows no
\* such press calls neither and raises nothing
C29_ReleaseDispatch ==
    mouse.ev = "release" =>
        /\ ~mouse.press /\ ~mouse.move
        /\ mouse.had_press =>
              mouse.invoked = IF mouse.had_move THEN "clickAndDrag"
                              ELSE "stationaryClick"
        /\ ~mouse.had_press => (mouse.invoked = "none" /\ ~mouse.raised)

\* C30: after a left click on a TOA, a drag, or one of the keys u, j, d, t,
\* the provider's selected_toas is the TOA set restricted to the selected mask
\* when a TOA is selected and the whole TOA set when none is (provider
\* exceptions aside)
SelectionHandlers == {"left", "drag", "u", "j", "d", "t"}
C30_SelectedToasFollowMask ==
    [][(/\ last'.op \in SelectionHandlers
        /\ last'.op = "left" => last'.ind > 0
        /\ psr'.name # 0
        /\ Len(selected') = Len(psr'.all_toas)
        /\ ~last'.out.faulted)
       => psr'.selected_toas =
             IF AnyOf(selected') THEN IndexCol(KeepSeq(psr'.all_toas, selected'))
             ELSE IndexCol(psr'.all_toas)]_vars
====
